---- MODULE Spec2Model ----
(***************************************************************************)
(* A model of the template engine (src/template_engine.py), the content    *)
(* block library (src/content_blocks.py), the page generators              *)
(* (src/templates) and the agent pipeline (src/orchestrator.py).           *)
(*                                                                         *)
(* Python values are tagged records.  A str is a sequence of one-character *)
(* strings, and so is every name the code reads as text (a dict key, a      *)
(* block type, a dependency name).  A dict is a sequence of [key, val] pairs in insertion order.  *)
(* A dict owned by the caller lives on the heap and is named by a Ref, so  *)
(* that two context keys can hold the same object and an in-place change   *)
(* is seen through every alias.                                            *)
(***************************************************************************)
EXTENDS Integers, Sequences, FiniteSets, TLC

VARIABLES
    templates,         \* TemplateEngine.templates: ordered name -> TemplateDefinition
    renderers,         \* TemplateEngine.renderers: the registered format names
    block_generators,  \* TemplateEngine.block_generators: the registered block names
    heap,              \* the caller's dict objects, by address
    data,              \* the caller's context mapping, passed to render_template
    hashSeed,          \* the process's string hash seed, which orders set iteration
    last,              \* the outcome of the latest engine call
    prev,              \* the outcome of the call before it, when both are the same render call
    regLog,            \* history: the definitions handed to register_template, in order
    call,              \* a direct call of a pure function: its input and its outcome
    pc,                \* run_pipeline's position: the agent it runs next, or how it ended
    agent_status,      \* BaseAgent.status of each registered agent
    results,           \* history: the AgentResult of each agent run, in order
    artifacts,         \* run_pipeline's artifacts mapping: the keys stored so far
    files,             \* the output directory: the files this run opened for writing
    error,             \* the exception run_pipeline raised, if any
    exit_code          \* the exit status of main, once the process has ended

engineVars == <<templates, renderers, block_generators, heap, data, hashSeed, last, prev, regLog, call>>
pipelineVars == <<pc, agent_status, results, artifacts, files, error, exit_code>>
vars == <<engineVars, pipelineVars>>

----------------------------------------------------------------------------
(* Python values *)

None == [k |-> "none"]
Str(s) == [k |-> "str", s |-> s]
Num(n) == [k |-> "num", n |-> n]
Bool(b) == [k |-> "bool", b |-> b]
List(items) == [k |-> "list", items |-> items]
Ref(a) == [k |-> "ref", a |-> a]
Dict(d) == [k |-> "dict", d |-> d]
ContentBlock(t, c, m) == [k |-> "block", block_type |-> t, content |-> c, metadata |-> m]

Pair(key, val) == [key |-> key, val |-> val]

Min(a, b) == IF a < b THEN a ELSE b
Max(a, b) == IF a > b THEN a ELSE b

(* dict operations, on the sequence of pairs *)
DictHas(d, key) == \E i \in 1..Len(d) : d[i].key = key
DictGet(d, key, dflt) ==
    IF DictHas(d, key) THEN d[CHOOSE i \in 1..Len(d) : d[i].key = key].val ELSE dflt
DictSet(d, key, val) ==
    IF DictHas(d, key)
    THEN [i \in 1..Len(d) |-> IF d[i].key = key THEN Pair(key, val) ELSE d[i]]
    ELSE Append(d, Pair(key, val))
DictPop(d, key) == SelectSeq(d, LAMBDA p : p.key # key)
DictKeys(d) == [i \in 1..Len(d) |-> d[i].key]

(* isinstance(v, dict), and the pairs of a dict value *)
IsDict(v) == v.k \in {"ref", "dict"}
Pairs(v, h) == IF v.k = "ref" THEN h[v.a] ELSE v.d

(* bool(v) *)
Truthy(v, h) ==
    CASE v.k = "none" -> FALSE
      [] v.k = "str" -> Len(v.s) > 0
      [] v.k = "num" -> v.n # 0
      [] v.k = "bool" -> v.b
      [] v.k = "list" -> Len(v.items) > 0
      [] v.k = "ref" -> Len(h[v.a]) > 0
      [] v.k = "dict" -> Len(v.d) > 0
      [] OTHER -> TRUE

(* hash(v) succeeds: list and dict are unhashable, as is a dataclass with eq *)
Hashable(v) == v.k \in {"none", "str", "num", "bool"}

----------------------------------------------------------------------------
(* str methods *)

LowerLetters == <<"a", "b", "c", "d", "e", "f", "g", "h", "i", "j", "k", "l", "m", "n", "o", "p", "q", "r", "s", "t", "u", "v", "w", "x", "y", "z">>
UpperLetters == <<"A", "B", "C", "D", "E", "F", "G", "H", "I", "J", "K", "L", "M", "N", "O", "P", "Q", "R", "S", "T", "U", "V", "W", "X", "Y", "Z">>

UpperOf(c) ==
    IF \E i \in 1..26 : LowerLetters[i] = c
    THEN UpperLetters[CHOOSE i \in 1..26 : LowerLetters[i] = c] ELSE c
LowerOf(c) ==
    IF \E i \in 1..26 : UpperLetters[i] = c
    THEN LowerLetters[CHOOSE i \in 1..26 : UpperLetters[i] = c] ELSE c

StrUpper(s) == [i \in 1..Len(s) |-> UpperOf(s[i])]
StrLower(s) == [i \in 1..Len(s) |-> LowerOf(s[i])]
StrCapitalize(s) == [i \in 1..Len(s) |-> IF i = 1 THEN UpperOf(s[i]) ELSE LowerOf(s[i])]

(* seq[:n] *)
SliceTo(seq, n) ==
    IF n >= 0 THEN SubSeq(seq, 1, Min(n, Len(seq)))
    ELSE SubSeq(seq, 1, Max(Len(seq) + n, 0))

(* sep.join(parts) *)
RECURSIVE Join(_, _)
Join(sep, parts) ==
    IF Len(parts) = 0 THEN <<>>
    ELSE IF Len(parts) = 1 THEN parts[1]
    ELSE parts[1] \o sep \o Join(sep, Tail(parts))

(* s.strip() *)
RECURSIVE LStrip(_)
LStrip(s) == IF Len(s) > 0 /\ s[1] = " " THEN LStrip(Tail(s)) ELSE s
RECURSIVE RStrip(_)
RStrip(s) == IF Len(s) > 0 /\ s[Len(s)] = " " THEN RStrip(SubSeq(s, 1, Len(s) - 1)) ELSE s
Strip(s) == RStrip(LStrip(s))

(* s.split(",") *)
RECURSIVE SplitComma(_, _)
SplitComma(s, cur) ==
    IF Len(s) = 0 THEN <<cur>>
    ELSE IF s[1] = "," THEN <<cur>> \o SplitComma(Tail(s), <<>>)
    ELSE SplitComma(Tail(s), Append(cur, s[1]))

Digit(n) == <<"0", "1", "2", "3", "4", "5", "6", "7", "8", "9">>[n + 1]
RECURSIVE Digits(_)
Digits(n) == IF n < 10 THEN <<Digit(n)>> ELSE Digits(n \div 10) \o <<Digit(n % 10)>>

Quoted(s) == <<"'">> \o s \o <<"'">>

(* repr(v) and str(v); they differ on a str only *)
RECURSIVE PyRepr(_, _)
RECURSIVE ReprSeq(_, _)
RECURSIVE ReprPairs(_, _)
ReprSeq(items, h) == [i \in 1..Len(items) |-> PyRepr(items[i], h)]
ReprPairs(d, h) ==
    [i \in 1..Len(d) |-> Quoted(d[i].key) \o <<":", " ">> \o PyRepr(d[i].val, h)]
PyRepr(v, h) ==
    CASE v.k = "none" -> <<"N", "o", "n", "e">>
      [] v.k = "str" -> Quoted(v.s)
      [] v.k = "num" -> Digits(v.n)
      [] v.k = "bool" -> IF v.b THEN <<"T", "r", "u", "e">> ELSE <<"F", "a", "l", "s", "e">>
      [] v.k = "list" -> <<"[">> \o Join(<<",", " ">>, ReprSeq(v.items, h)) \o <<"]">>
      [] v.k = "ref" -> <<"{">> \o Join(<<",", " ">>, ReprPairs(h[v.a], h)) \o <<"}">>
      [] v.k = "dict" -> <<"{">> \o Join(<<",", " ">>, ReprPairs(v.d, h)) \o <<"}">>
      [] OTHER -> <<"C", "o", "n", "t", "e", "n", "t", "B", "l", "o", "c", "k", "(", "b", "l", "o", "c", "k", "_", "t", "y", "p", "e", "=">> \o Quoted(v.block_type)
                  \o <<",", " ", "c", "o", "n", "t", "e", "n", "t", "=">> \o PyRepr(v.content, h)
                  \o <<",", " ", "m", "e", "t", "a", "d", "a", "t", "a", "=">> \o PyRepr(v.metadata, h) \o <<")">>
PyStr(v, h) == IF v.k = "str" THEN v.s ELSE PyRepr(v, h)

----------------------------------------------------------------------------
(* The outcome of a Python call: a returned value or a raised exception,   *)
(* with the heap as the call left it.                                      *)

Return(v, h) == [raised |-> FALSE, exc |-> "", value |-> v, heap |-> h]
Raise(e, h) == [raised |-> TRUE, exc |-> e, value |-> None, heap |-> h]

TemplateField(name, field_type, required, default_value, formatting) ==
    [name |-> name, field_type |-> field_type, required |-> required,
     default_value |-> default_value, formatting |-> formatting]

TemplateDefinition(name, description, fields, dependencies, metadata) ==
    [name |-> name, description |-> description, fields |-> fields,
     dependencies |-> dependencies, metadata |-> metadata]

(* formatting.get(option) *)
FmtGet(formatting, option) == DictGet(formatting.d, option, None)

(* a value usable as a slice bound: an int, or a bool (an int in Python) *)
IsIndex(v) == v.k \in {"num", "bool"}
IndexOf(v) == IF v.k = "num" THEN v.n ELSE IF v.b THEN 1 ELSE 0

(* a == b on hashable values: True == 1 and False == 0 *)
PyEq(a, b) == IF IsIndex(a) /\ IsIndex(b) THEN IndexOf(a) = IndexOf(b) ELSE a = b

(* a variant that keeps the last of equal items *)
RECURSIVE DedupKeepLast(_)
DedupKeepLast(seq) ==
    IF Len(seq) = 0 THEN <<>>
    ELSE IF \E i \in 2..Len(seq) : PyEq(seq[i], seq[1]) THEN DedupKeepLast(Tail(seq))
    ELSE <<seq[1]>> \o DedupKeepLast(Tail(seq))

RECURSIVE DedupValues(_)
DedupValues(seq) ==
    IF Len(seq) = 0 THEN <<>>
    ELSE LET rest == DedupValues(SubSeq(seq, 1, Len(seq) - 1))
             x == seq[Len(seq)]
         IN IF \E i \in 1..Len(rest) : PyEq(rest[i], x) THEN rest ELSE Append(rest, x)

(* a variant that applies lowercase before uppercase *)
_process_text_field_upper_last(value, formatting, h) ==
    LET s0 == PyStr(value, h)
        on(option) == Truthy(formatting, h) /\ Truthy(FmtGet(formatting, option), h)
        s1 == IF on(<<"c", "a", "p", "i", "t", "a", "l", "i", "z", "e">>) THEN StrCapitalize(s0) ELSE s0
        s2 == IF on(<<"l", "o", "w", "e", "r", "c", "a", "s", "e">>) THEN StrLower(s1) ELSE s1
        s3 == IF on(<<"u", "p", "p", "e", "r", "c", "a", "s", "e">>) THEN StrUpper(s2) ELSE s2
    IN IF on(<<"m", "a", "x", "_", "l", "e", "n", "g", "t", "h">>)
       THEN IF IsIndex(FmtGet(formatting, <<"m", "a", "x", "_", "l", "e", "n", "g", "t", "h">>))
            THEN Return(Str(SliceTo(s3, IndexOf(FmtGet(formatting, <<"m", "a", "x", "_", "l", "e", "n", "g", "t", "h">>)))), h)
            ELSE Raise("TypeError", h)
       ELSE Return(Str(s3), h)

_process_text_field(value, formatting, h) ==
    LET s0 == PyStr(value, h)
        on(option) == Truthy(formatting, h) /\ Truthy(FmtGet(formatting, option), h)
        s1 == IF on(<<"c", "a", "p", "i", "t", "a", "l", "i", "z", "e">>) THEN StrCapitalize(s0) ELSE s0
        s2 == IF on(<<"u", "p", "p", "e", "r", "c", "a", "s", "e">>) THEN StrUpper(s1) ELSE s1
        s3 == IF on(<<"l", "o", "w", "e", "r", "c", "a", "s", "e">>) THEN StrLower(s2) ELSE s2
    IN IF on(<<"m", "a", "x", "_", "l", "e", "n", "g", "t", "h">>)
       THEN IF IsIndex(FmtGet(formatting, <<"m", "a", "x", "_", "l", "e", "n", "g", "t", "h">>))
            THEN Return(Str(SliceTo(s3, IndexOf(FmtGet(formatting, <<"m", "a", "x", "_", "l", "e", "n", "g", "t", "h">>)))), h)
            ELSE Raise("TypeError", h)
       ELSE Return(Str(s3), h)

(* [item.strip() for item in value.split(",") if item.strip()] *)
SplitItems(s) ==
    LET parts == SplitComma(s, <<>>)
        kept == SelectSeq(parts, LAMBDA p : Len(Strip(p)) > 0)
    IN [i \in 1..Len(kept) |-> Str(Strip(kept[i]))]

(* a variant that removes the duplicates before it keeps the first items *)
_process_list_field_unique_first(value, formatting, h) ==
    LET v0 == IF value.k = "list" THEN value.items
              ELSE IF value.k = "str" THEN SplitItems(value.s)
              ELSE <<value>>
        on(option) == Truthy(formatting, h) /\ Truthy(FmtGet(formatting, option), h)
        badMax == on(<<"m", "a", "x", "_", "i", "t", "e", "m", "s">>) /\ ~IsIndex(FmtGet(formatting, <<"m", "a", "x", "_", "i", "t", "e", "m", "s">>))
        cut(v) == IF on(<<"m", "a", "x", "_", "i", "t", "e", "m", "s">>) /\ ~badMax
                  THEN SliceTo(v, IndexOf(FmtGet(formatting, <<"m", "a", "x", "_", "i", "t", "e", "m", "s">>))) ELSE v
    IN IF badMax THEN Raise("TypeError", h)
       ELSE IF on(<<"u", "n", "i", "q", "u", "e">>)
            THEN IF \A i \in 1..Len(v0) : Hashable(v0[i])
                 THEN Return(List(cut(DedupValues(v0))), h)
                 ELSE Raise("TypeError", h)
            ELSE Return(List(cut(v0)), h)

_process_list_field(value, formatting, h) ==
    LET v0 == IF value.k = "list" THEN value.items
              ELSE IF value.k = "str" THEN SplitItems(value.s)
              ELSE <<value>>
        on(option) == Truthy(formatting, h) /\ Truthy(FmtGet(formatting, option), h)
        badMax == on(<<"m", "a", "x", "_", "i", "t", "e", "m", "s">>) /\ ~IsIndex(FmtGet(formatting, <<"m", "a", "x", "_", "i", "t", "e", "m", "s">>))
        v1 == IF on(<<"m", "a", "x", "_", "i", "t", "e", "m", "s">>) /\ ~badMax
              THEN SliceTo(v0, IndexOf(FmtGet(formatting, <<"m", "a", "x", "_", "i", "t", "e", "m", "s">>))) ELSE v0
    IN IF badMax THEN Raise("TypeError", h)
       ELSE IF on(<<"u", "n", "i", "q", "u", "e">>)
            THEN IF \A i \in 1..Len(v1) : Hashable(v1[i])
                 THEN Return(List(DedupValues(v1)), h)
                 ELSE Raise("TypeError", h)
            ELSE Return(List(v1), h)

(* the mapping _process_block_field works on: a new dict for a Block or a *)
(* plain value, the caller's own dict for a dict                          *)
BlockResult(value, h) ==
    IF value.k = "block"
    THEN Dict(<<Pair(<<"t", "y", "p", "e">>, Str(value.block_type)),
                Pair(<<"c", "o", "n", "t", "e", "n", "t">>, value.content),
                Pair(<<"m", "e", "t", "a", "d", "a", "t", "a">>, IF Truthy(value.metadata, h)
                                 THEN value.metadata ELSE Dict(<<>>))>>)
    ELSE IF IsDict(value) THEN value
    ELSE Dict(<<Pair(<<"c", "o", "n", "t", "e", "n", "t">>, Str(PyStr(value, h))), Pair(<<"t", "y", "p", "e">>, Str(<<"t", "e", "x", "t">>))>>)

(* result.pop("metadata", None): a dict held by reference changes in place *)
PopMetadata(result, h) ==
    IF result.k = "ref"
    THEN [result |-> result, heap |-> [h EXCEPT ![result.a] = DictPop(h[result.a], <<"m", "e", "t", "a", "d", "a", "t", "a">>)]]
    ELSE [result |-> Dict(DictPop(result.d, <<"m", "e", "t", "a", "d", "a", "t", "a">>)), heap |-> h]

(* the return of _process_block_field, p being the mapping and the heap *)
BlockReturn(p, formatting) ==
    IF Truthy(formatting, p.heap) /\ Truthy(FmtGet(formatting, <<"c", "o", "n", "t", "e", "n", "t", "_", "o", "n", "l", "y">>), p.heap)
    THEN IF DictHas(Pairs(p.result, p.heap), <<"c", "o", "n", "t", "e", "n", "t">>)
         THEN Return(DictGet(Pairs(p.result, p.heap), <<"c", "o", "n", "t", "e", "n", "t">>, None), p.heap)
         ELSE Raise("KeyError", p.heap)
    ELSE Return(p.result, p.heap)

_process_block_field(value, formatting, h) ==
    IF Truthy(formatting, h) /\ FmtGet(formatting, <<"i", "n", "c", "l", "u", "d", "e", "_", "m", "e", "t", "a", "d", "a", "t", "a">>) = Bool(FALSE)
    THEN BlockReturn(PopMetadata(BlockResult(value, h), h), formatting)
    ELSE BlockReturn([result |-> BlockResult(value, h), heap |-> h], formatting)

_process_structured_field(value, formatting, h) ==
    IF IsDict(value) THEN Return(value, h) ELSE Return(Dict(<<Pair(<<"v", "a", "l", "u", "e">>, value)>>), h)

(* a variant that also takes the default for a null value *)
_process_field_default_for_null(field, d, h) ==
    LET raw_value == IF DictGet(d, field.name, None) = None THEN field.default_value
                     ELSE DictGet(d, field.name, None)
    IN IF raw_value = None THEN Return(None, h)
       ELSE CASE field.field_type = "text" -> _process_text_field(raw_value, field.formatting, h)
              [] field.field_type = "list" -> _process_list_field(raw_value, field.formatting, h)
              [] field.field_type = "block" -> _process_block_field(raw_value, field.formatting, h)
              [] field.field_type = "structured" ->
                     _process_structured_field(raw_value, field.formatting, h)
              [] OTHER -> Return(raw_value, h)

_process_field(field, d, h) ==
    LET raw_value == DictGet(d, field.name, field.default_value)
    IN IF raw_value = None THEN Return(None, h)
       ELSE CASE field.field_type = "text" -> _process_text_field(raw_value, field.formatting, h)
              [] field.field_type = "list" -> _process_list_field(raw_value, field.formatting, h)
              [] field.field_type = "block" -> _process_block_field(raw_value, field.formatting, h)
              [] field.field_type = "structured" ->
                     _process_structured_field(raw_value, field.formatting, h)
              [] OTHER -> Return(raw_value, h)

(* a variant that stores only the fields that have a value *)
EmitsWhenValued(field, field_value) == field_value # None

(* whether render stores the field's value in the content mapping *)
Emits(field, field_value) == field_value # None \/ ~field.required

(* the state of the loop of render: the content mapping so far, the heap, *)
(* and the log, which records each coerced field                          *)
Rendering(raised, exc, content, h, log) ==
    [raised |-> raised, exc |-> exc, content |-> content, heap |-> h, log |-> log]

(* one pass of the loop, r being the outcome of _process_field *)
StoreField(field, r, s) ==
    IF r.raised
    THEN Rendering(TRUE, r.exc, s.content, r.heap,
                   Append(s.log, [ev |-> "coerce", name |-> field.name]))
    ELSE Rendering(FALSE, "",
                   IF Emits(field, r.value) THEN DictSet(s.content, field.name, r.value)
                   ELSE s.content,
                   r.heap, Append(s.log, [ev |-> "coerce", name |-> field.name]))

(* JSONTemplateRenderer.render from field i on *)
RECURSIVE RenderFields(_, _, _, _)
RenderFields(fields, i, d, s) ==
    IF i > Len(fields) \/ s.raised THEN s
    ELSE RenderFields(fields, i + 1, d,
                      StoreField(fields[i], _process_field(fields[i], d, s.heap), s))

Document(template_name, metadata, content) ==
    [template_name |-> template_name, metadata |-> metadata, content |-> content]

(* the return of render, r being the loop's final state *)
RenderReturn(template, r, h) ==
    [raised |-> r.raised, exc |-> r.exc, heap |-> r.heap, log |-> r.log,
     value |-> Document(template.name,
                        IF Truthy(template.metadata, h) THEN template.metadata ELSE Dict(<<>>),
                        r.content)]

(* a variant that fills the content mapping in over the context *)
render_over_context(template, d, h, log) ==
    RenderReturn(template,
                 RenderFields(template.fields, 1, d, Rendering(FALSE, "", d, h, log)), h)

render(template, d, h, log) ==
    RenderReturn(template,
                 RenderFields(template.fields, 1, d, Rendering(FALSE, "", <<>>, h, log)), h)
----------------------------------------------------------------------------
(* Content blocks (src/content_blocks.py).  A generator takes the subject  *)
(* record as its pairs pd and returns a ContentBlock or raises.            *)

(* len(v) is defined *)
HasLen(v) == v.k \in {"str", "list", "ref", "dict"}
PyLen(v, h) ==
    CASE v.k = "str" -> Len(v.s)
      [] v.k = "list" -> Len(v.items)
      [] OTHER -> Len(Pairs(v, h))

(* v[i] and v[:n] are defined by position: a list, or a str (its characters) *)
IsSeq(v) == v.k \in {"str", "list"}
Elems(v) == IF v.k = "str" THEN [i \in 1..Len(v.s) |-> Str(<<v.s[i]>>)] ELSE v.items

(* sep.join(items) raises TypeError on an item that is no str *)
AllStr(items) == \A i \in 1..Len(items) : items[i].k = "str"
StrsOf(items) == [i \in 1..Len(items) |-> items[i].s]

(* product_data.get("name", "this product"), as an f-string prints it *)
ProductName(pd, h) == PyStr(DictGet(pd, <<"n", "a", "m", "e">>, Str(<<"t", "h", "i", "s", " ", "p", "r", "o", "d", "u", "c", "t">>)), h)

(* ", ".join(e[:-1]) + f" and {e[-1]}", for Len(e) > 1 *)
CommaAndOk(e) == AllStr(SubSeq(e, 1, Len(e) - 1))
CommaAnd(e, h) ==
    Join(<<",", " ">>, StrsOf(SubSeq(e, 1, Len(e) - 1))) \o <<" ", "a", "n", "d", " ">> \o PyStr(e[Len(e)], h)

BenefitsBlock_generate(pd, h) ==
    LET benefits == DictGet(pd, <<"b", "e", "n", "e", "f", "i", "t", "s">>, List(<<>>))
        product_name == ProductName(pd, h)
        meta(n) == Dict(<<Pair(<<"b", "e", "n", "e", "f", "i", "t", "_", "c", "o", "u", "n", "t">>, Num(n))>>)
    IN IF ~Truthy(benefits, h)
       THEN IF HasLen(benefits)
            THEN Return(ContentBlock(<<"b", "e", "n", "e", "f", "i", "t", "s">>,
                     Str(<<"B", "e", "n", "e", "f", "i", "t", "s", " ", "f", "o", "r", " ">> \o product_name \o <<" ", "a", "r", "e", " ", "n", "o", "t", " ", "p", "r", "o", "v", "i", "d", "e", "d", ".">>), meta(0)), h)
            ELSE Raise("TypeError", h)       \* len(benefits) in the metadata
       ELSE IF ~HasLen(benefits) THEN Raise("TypeError", h)
       ELSE IF ~IsSeq(benefits) THEN Raise("KeyError", h)
       ELSE LET e == Elems(benefits)
            IN IF Len(e) > 1 /\ ~CommaAndOk(e) THEN Raise("TypeError", h)
               ELSE Return(ContentBlock(<<"b", "e", "n", "e", "f", "i", "t", "s">>,
                        Str(product_name \o <<" ", "d", "e", "l", "i", "v", "e", "r", "s", " ", "p", "o", "w", "e", "r", "f", "u", "l", " ", "b", "e", "n", "e", "f", "i", "t", "s", " ", "i", "n", "c", "l", "u", "d", "i", "n", "g", " ">>
                            \o (IF Len(e) > 1 THEN CommaAnd(e, h) ELSE PyStr(e[1], h))
                            \o <<".">>),
                        meta(Len(e))), h)

UsageBlock_generate(pd, h) ==
    LET usage == DictGet(pd, <<"u", "s", "a", "g", "e", "_", "i", "n", "s", "t", "r", "u", "c", "t", "i", "o", "n", "s">>, None)
        product_name == ProductName(pd, h)
    IN Return(ContentBlock(<<"u", "s", "a", "g", "e">>,
           Str(IF Truthy(usage, h)
               THEN <<"H", "o", "w", " ", "t", "o", " ", "u", "s", "e", " ">> \o product_name \o <<":", " ">> \o PyStr(usage, h)
               ELSE <<"U", "s", "a", "g", "e", " ", "i", "n", "s", "t", "r", "u", "c", "t", "i", "o", "n", "s", " ", "f", "o", "r", " ">> \o product_name \o <<" ", "a", "r", "e", " ", "n", "o", "t", " ", "p", "r", "o", "v", "i", "d", "e", "d", ".">>),
           Dict(<<Pair(<<"h", "a", "s", "_", "i", "n", "s", "t", "r", "u", "c", "t", "i", "o", "n", "s">>, Bool(Truthy(usage, h)))>>)), h)

IngredientsBlock_generate(pd, detailed, h) ==
    LET ingredients == DictGet(pd, <<"k", "e", "y", "_", "i", "n", "g", "r", "e", "d", "i", "e", "n", "t", "s">>, List(<<>>))
        concentration == DictGet(pd, <<"c", "o", "n", "c", "e", "n", "t", "r", "a", "t", "i", "o", "n">>, None)
        product_name == ProductName(pd, h)
        meta(n) == Dict(<<Pair(<<"i", "n", "g", "r", "e", "d", "i", "e", "n", "t", "_", "c", "o", "u", "n", "t">>, Num(n)), Pair(<<"d", "e", "t", "a", "i", "l", "e", "d">>, Bool(detailed))>>)
    IN IF ~Truthy(ingredients, h)
       THEN IF HasLen(ingredients)
            THEN Return(ContentBlock(<<"i", "n", "g", "r", "e", "d", "i", "e", "n", "t", "s">>,
                     Str(<<"K", "e", "y", " ", "i", "n", "g", "r", "e", "d", "i", "e", "n", "t", "s", " ", "f", "o", "r", " ">> \o product_name \o <<" ", "a", "r", "e", " ", "n", "o", "t", " ", "p", "r", "o", "v", "i", "d", "e", "d", ".">>),
                     meta(0)), h)
            ELSE Raise("TypeError", h)       \* len(ingredients) in the metadata
       ELSE IF ~HasLen(ingredients) THEN Raise("TypeError", h)
       ELSE IF ~IsSeq(ingredients) THEN Raise("KeyError", h)
       ELSE LET e == Elems(ingredients)
                joinOk == IF detailed THEN CommaAndOk(e) ELSE AllStr(e)
                ingredient_text ==
                    IF detailed /\ Len(e) > 1 THEN <<"k", "e", "y", " ", "i", "n", "g", "r", "e", "d", "i", "e", "n", "t", "s", " ">> \o CommaAnd(e, h)
                    ELSE IF Len(e) > 1 THEN Join(<<" ", "a", "n", "d", " ">>, StrsOf(e))
                    ELSE PyStr(e[1], h)
            IN IF Len(e) > 1 /\ ~joinOk THEN Raise("TypeError", h)
               ELSE Return(ContentBlock(<<"i", "n", "g", "r", "e", "d", "i", "e", "n", "t", "s">>,
                        Str(product_name \o <<" ", "f", "e", "a", "t", "u", "r", "e", "s", " ">> \o ingredient_text
                            \o (IF Truthy(concentration, h)
                                THEN <<" ", "a", "t", " ">> \o PyStr(concentration, h) \o <<" ", "c", "o", "n", "c", "e", "n", "t", "r", "a", "t", "i", "o", "n">>
                                ELSE <<>>)
                            \o <<".">>),
                        meta(Len(e))), h)

SafetyBlock_generate(pd, h) ==
    LET side_effects == DictGet(pd, <<"s", "i", "d", "e", "_", "e", "f", "f", "e", "c", "t", "s">>, None)
        product_name == ProductName(pd, h)
    IN Return(ContentBlock(<<"s", "a", "f", "e", "t", "y">>,
           Str(IF Truthy(side_effects, h)
               THEN <<"S", "a", "f", "e", "t", "y", " ", "i", "n", "f", "o", "r", "m", "a", "t", "i", "o", "n", ":", " ">> \o PyStr(side_effects, h)
               ELSE <<"S", "i", "d", "e", " ", "e", "f", "f", "e", "c", "t", "s", " ", "i", "n", "f", "o", "r", "m", "a", "t", "i", "o", "n", " ", "f", "o", "r", " ">> \o product_name \o <<" ", "i", "s", " ", "n", "o", "t", " ", "p", "r", "o", "v", "i", "d", "e", "d", ".">>),
           Dict(<<Pair(<<"h", "a", "s", "_", "w", "a", "r", "n", "i", "n", "g", "s">>, Bool(Truthy(side_effects, h)))>>)), h)

SkinTypeBlock_generate(pd, h) ==
    LET skin_types == DictGet(pd, <<"s", "k", "i", "n", "_", "t", "y", "p", "e", "s">>, List(<<>>))
        product_name == ProductName(pd, h)
        meta(n) == Dict(<<Pair(<<"s", "k", "i", "n", "_", "t", "y", "p", "e", "_", "c", "o", "u", "n", "t">>, Num(n))>>)
    IN IF ~Truthy(skin_types, h)
       THEN IF HasLen(skin_types)
            THEN Return(ContentBlock(<<"s", "k", "i", "n", "_", "t", "y", "p", "e">>,
                     Str(<<"S", "u", "i", "t", "a", "b", "l", "e", " ", "s", "k", "i", "n", " ", "t", "y", "p", "e", "s", " ", "f", "o", "r", " ">> \o product_name \o <<" ", "a", "r", "e", " ", "n", "o", "t", " ", "s", "p", "e", "c", "i", "f", "i", "e", "d", ".">>),
                     meta(0)), h)
            ELSE Raise("TypeError", h)       \* len(skin_types) in the metadata
       ELSE IF ~HasLen(skin_types) THEN Raise("TypeError", h)
       ELSE IF ~IsSeq(skin_types) THEN Raise("KeyError", h)
       ELSE LET e == Elems(skin_types)
            IN IF Len(e) > 1 /\ ~CommaAndOk(e) THEN Raise("TypeError", h)
               ELSE Return(ContentBlock(<<"s", "k", "i", "n", "_", "t", "y", "p", "e">>,
                        Str(IF Len(e) > 1
                            THEN product_name \o <<" ", "i", "s", " ", "s", "p", "e", "c", "i", "a", "l", "l", "y", " ", "f", "o", "r", "m", "u", "l", "a", "t", "e", "d", " ", "f", "o", "r", " ">>
                                 \o CommaAnd(e, h) \o <<" ", "s", "k", "i", "n", " ", "t", "y", "p", "e", "s", ".">>
                            ELSE product_name \o <<" ", "i", "s", " ", "i", "d", "e", "a", "l", " ", "f", "o", "r", " ">> \o PyStr(e[1], h)
                                 \o <<" ", "s", "k", "i", "n", ".">>),
                        meta(Len(e))), h)

PriceBlock_generate(pd, h) ==
    LET price == DictGet(pd, <<"p", "r", "i", "c", "e">>, None)
        product_name == ProductName(pd, h)
    IN Return(ContentBlock(<<"p", "r", "i", "c", "e">>,
           Str(IF Truthy(price, h)
               THEN product_name \o <<" ", "i", "s", " ", "p", "r", "i", "c", "e", "d", " ", "a", "t", " ">> \o PyStr(price, h) \o <<".">>
               ELSE <<"P", "r", "i", "c", "e", " ", "f", "o", "r", " ">> \o product_name \o <<" ", "i", "s", " ", "n", "o", "t", " ", "p", "r", "o", "v", "i", "d", "e", "d", ".">>),
           Dict(<<Pair(<<"h", "a", "s", "_", "p", "r", "i", "c", "e">>, Bool(Truthy(price, h)))>>)), h)

(* set(v): the elements v iterates over, when v is iterable and they are hashable *)
Iterable(v) == HasLen(v)
IterElems(v, h) ==
    IF IsSeq(v) THEN Elems(v)
    ELSE [i \in 1..Len(Pairs(v, h)) |-> Str(Pairs(v, h)[i].key)]
SetOk(v, h) == Iterable(v) /\ \A i \in 1..Len(IterElems(v, h)) : Hashable(IterElems(v, h)[i])
PySet(v, h) == {IterElems(v, h)[i] : i \in 1..Len(IterElems(v, h))}

(* The order in which a set is iterated follows the process's string hash  *)
(* seed: one fixed order per seed, the same at every iteration.            *)
SetOrder(S, seed) ==
    LET n == Cardinality(S)
        f == CHOOSE g \in [1..n -> S] : \A x \in S : \E i \in 1..n : g[i] = x
    IN IF seed = 0 THEN f ELSE [i \in 1..n |-> f[n + 1 - i]]

(* one sentence part of a comparison: f"{product['name']} <verb> {', '.join(S)}" *)
(* the exception raised in building a part, "" when there is none: join  *)
(* raises on an item that is no str, then product['name'] on a missing key *)
PartError(S, pd, needsName) ==
    IF S = {} THEN ""
    ELSE IF \E x \in S : x.k # "str" THEN "TypeError"
    ELSE IF needsName /\ ~DictHas(pd, <<"n", "a", "m", "e">>) THEN "KeyError"
    ELSE ""
(* the first exception raised in building the three parts *)
PartsError(common, unique_a, unique_b, pa, pb) ==
    IF PartError(common, pa, FALSE) # "" THEN PartError(common, pa, FALSE)
    ELSE IF PartError(unique_a, pa, TRUE) # "" THEN PartError(unique_a, pa, TRUE)
    ELSE PartError(unique_b, pb, TRUE)
PartText(lead, S, seed) == lead \o Join(<<",", " ">>, StrsOf(SetOrder(S, seed)))

(* a variant with no sentence for the case that there is no part *)
CompareContentOfParts(common, unique_a, unique_b, pa, pb, both, verbA, verbB, none, seed, h) ==
    LET nameOf(pd) == PyStr(DictGet(pd, <<"n", "a", "m", "e">>, None), h)
        content_parts ==
            (IF common # {} THEN <<PartText(both, common, seed)>> ELSE <<>>)
            \o (IF unique_a # {}
                THEN <<PartText(nameOf(pa) \o verbA, unique_a, seed)>> ELSE <<>>)
            \o (IF unique_b # {}
                THEN <<PartText(nameOf(pb) \o verbB, unique_b, seed)>> ELSE <<>>)
    IN IF Len(content_parts) > 0 THEN Join(<<".", " ">>, content_parts) \o <<".">> ELSE <<>>

(* the three-part comparison shared in shape by ingredients and benefits *)
CompareContent(common, unique_a, unique_b, pa, pb, both, verbA, verbB, none, seed, h) ==
    LET nameOf(pd) == PyStr(DictGet(pd, <<"n", "a", "m", "e">>, None), h)
        content_parts ==
            (IF common # {} THEN <<PartText(both, common, seed)>> ELSE <<>>)
            \o (IF unique_a # {}
                THEN <<PartText(nameOf(pa) \o verbA, unique_a, seed)>> ELSE <<>>)
            \o (IF unique_b # {}
                THEN <<PartText(nameOf(pb) \o verbB, unique_b, seed)>> ELSE <<>>)
    IN IF Len(content_parts) > 0 THEN Join(<<".", " ">>, content_parts) \o <<".">> ELSE none

(* a variant that lists the shared ingredients in the second product's part too *)
IngredientSetsShared(ingredients_a, ingredients_b) ==
    [common |-> ingredients_a \cap ingredients_b,
     unique_a |-> ingredients_a \ ingredients_b,
     unique_b |-> ingredients_b]

(* a variant that counts every ingredient of the first product as unique to it *)
IngredientSetsAll(ingredients_a, ingredients_b) ==
    [common |-> ingredients_a \cap ingredients_b,
     unique_a |-> ingredients_a,
     unique_b |-> ingredients_b \ ingredients_a]

(* the three sets compare_ingredients derives from the two ingredient sets *)
IngredientSets(ingredients_a, ingredients_b) ==
    [common |-> ingredients_a \cap ingredients_b,
     unique_a |-> ingredients_a \ ingredients_b,
     unique_b |-> ingredients_b \ ingredients_a]

(* the block compare_ingredients returns, s being the three sets *)
IngredientComparison(s, pa, pb, seed, h) ==
    IF PartsError(s.common, s.unique_a, s.unique_b, pa, pb) # ""
    THEN Raise(PartsError(s.common, s.unique_a, s.unique_b, pa, pb), h)
    ELSE Return(ContentBlock(<<"i", "n", "g", "r", "e", "d", "i", "e", "n", "t", "_", "c", "o", "m", "p", "a", "r", "i", "s", "o", "n">>,
             Str(CompareContent(s.common, s.unique_a, s.unique_b, pa, pb,
                     <<"B", "o", "t", "h", " ", "p", "r", "o", "d", "u", "c", "t", "s", " ", "c", "o", "n", "t", "a", "i", "n", " ">>, <<" ", "u", "n", "i", "q", "u", "e", "l", "y", " ", "f", "e", "a", "t", "u", "r", "e", "s", " ">>,
                     <<" ", "u", "n", "i", "q", "u", "e", "l", "y", " ", "f", "e", "a", "t", "u", "r", "e", "s", " ">>,
                     <<"B", "o", "t", "h", " ", "p", "r", "o", "d", "u", "c", "t", "s", " ", "h", "a", "v", "e", " ", "d", "i", "s", "t", "i", "n", "c", "t", " ", "i", "n", "g", "r", "e", "d", "i", "e", "n", "t", " ", "f", "o", "r", "m", "u", "l", "a", "t", "i", "o", "n", "s", ".">>,
                     seed, h)),
             Dict(<<Pair(<<"c", "o", "m", "m", "o", "n", "_", "i", "n", "g", "r", "e", "d", "i", "e", "n", "t", "s">>, Num(Cardinality(s.common))),
                    Pair(<<"u", "n", "i", "q", "u", "e", "_", "a">>, Num(Cardinality(s.unique_a))),
                    Pair(<<"u", "n", "i", "q", "u", "e", "_", "b">>, Num(Cardinality(s.unique_b)))>>)), h)

compare_ingredients(pa, pb, seed, h) ==
    LET a == DictGet(pa, <<"k", "e", "y", "_", "i", "n", "g", "r", "e", "d", "i", "e", "n", "t", "s">>, List(<<>>))
        b == DictGet(pb, <<"k", "e", "y", "_", "i", "n", "g", "r", "e", "d", "i", "e", "n", "t", "s">>, List(<<>>))
    IN IF ~SetOk(a, h) \/ ~SetOk(b, h) THEN Raise("TypeError", h)
       ELSE IngredientComparison(IngredientSets(PySet(a, h), PySet(b, h)), pa, pb, seed, h)

compare_benefits(pa, pb, seed, h) ==
    LET a == DictGet(pa, <<"b", "e", "n", "e", "f", "i", "t", "s">>, List(<<>>))
        b == DictGet(pb, <<"b", "e", "n", "e", "f", "i", "t", "s">>, List(<<>>))
    IN IF ~SetOk(a, h) \/ ~SetOk(b, h) THEN Raise("TypeError", h)
       ELSE LET benefits_a == PySet(a, h)
                benefits_b == PySet(b, h)
                common == benefits_a \cap benefits_b
                unique_a == benefits_a \ benefits_b
                unique_b == benefits_b \ benefits_a
            IN IF PartsError(common, unique_a, unique_b, pa, pb) # ""
               THEN Raise(PartsError(common, unique_a, unique_b, pa, pb), h)
               ELSE Return(ContentBlock(<<"b", "e", "n", "e", "f", "i", "t", "_", "c", "o", "m", "p", "a", "r", "i", "s", "o", "n">>,
                        Str(CompareContent(common, unique_a, unique_b, pa, pb,
                                <<"B", "o", "t", "h", " ", "p", "r", "o", "d", "u", "c", "t", "s", " ", "o", "f", "f", "e", "r", " ">>, <<" ", "s", "p", "e", "c", "i", "f", "i", "c", "a", "l", "l", "y", " ", "p", "r", "o", "v", "i", "d", "e", "s", " ">>,
                                <<" ", "f", "o", "c", "u", "s", "e", "s", " ", "o", "n", " ">>, <<"E", "a", "c", "h", " ", "p", "r", "o", "d", "u", "c", "t", " ", "o", "f", "f", "e", "r", "s", " ", "u", "n", "i", "q", "u", "e", " ", "b", "e", "n", "e", "f", "i", "t", "s", ".">>,
                                seed, h)),
                        Dict(<<Pair(<<"c", "o", "m", "m", "o", "n", "_", "b", "e", "n", "e", "f", "i", "t", "s">>, Num(Cardinality(common))),
                               Pair(<<"u", "n", "i", "q", "u", "e", "_", "a">>, Num(Cardinality(unique_a))),
                               Pair(<<"u", "n", "i", "q", "u", "e", "_", "b">>, Num(Cardinality(unique_b)))>>)), h)

compare_prices(pa, pb, h) ==
    LET price_a == DictGet(pa, <<"p", "r", "i", "c", "e">>, Str(<<"u", "n", "s", "p", "e", "c", "i", "f", "i", "e", "d">>))
        price_b == DictGet(pb, <<"p", "r", "i", "c", "e">>, Str(<<"u", "n", "s", "p", "e", "c", "i", "f", "i", "e", "d">>))
    IN IF ~DictHas(pa, <<"n", "a", "m", "e">>) \/ ~DictHas(pb, <<"n", "a", "m", "e">>) THEN Raise("KeyError", h)
       ELSE Return(ContentBlock(<<"p", "r", "i", "c", "e", "_", "c", "o", "m", "p", "a", "r", "i", "s", "o", "n">>,
                Str(<<"P", "r", "i", "c", "e", " ", "c", "o", "m", "p", "a", "r", "i", "s", "o", "n", ":", " ">> \o PyStr(DictGet(pa, <<"n", "a", "m", "e">>, None), h)
                    \o <<" ", "(">> \o PyStr(price_a, h) \o <<")", " ", "v", "s", " ">>
                    \o PyStr(DictGet(pb, <<"n", "a", "m", "e">>, None), h)
                    \o <<" ", "(">> \o PyStr(price_b, h) \o <<")", ".">>),
                Dict(<<Pair(<<"b", "o", "t", "h", "_", "p", "r", "i", "c", "e", "d">>,
                            Bool(Truthy(DictGet(pa, <<"p", "r", "i", "c", "e">>, None), h)
                                 /\ Truthy(DictGet(pb, <<"p", "r", "i", "c", "e">>, None), h)))>>)), h)

(* sub in s *)
Contains(s, sub) ==
    \E i \in 0..(Len(s) - Len(sub)) : SubSeq(s, i + 1, i + Len(sub)) = sub

(* ", ".join(v) is defined: v iterates over str items *)
JoinOk(v, h) == Iterable(v) /\ AllStr(IterElems(v, h))

_classify_question(question) ==
    LET question_lower == StrLower(question)
        has(kw) == Contains(question_lower, kw)
    IN IF has(<<"w", "h", "a", "t", " ", "i", "s">>) \/ has(<<"w", "h", "a", "t", " ", "a", "r", "e">>) THEN <<"i", "n", "f", "o", "r", "m", "a", "t", "i", "o", "n", "a", "l">>
       ELSE IF has(<<"h", "o", "w", " ", "t", "o">>) \/ has(<<"a", "p", "p", "l", "y">>) \/ has(<<"u", "s", "e">>) THEN <<"u", "s", "a", "g", "e">>
       ELSE IF has(<<"s", "a", "f", "e">>) \/ has(<<"s", "i", "d", "e", " ", "e", "f", "f", "e", "c", "t">>) \/ has(<<"p", "r", "e", "c", "a", "u", "t", "i", "o", "n">>) THEN <<"s", "a", "f", "e", "t", "y">>
       ELSE IF has(<<"s", "k", "i", "n", " ", "t", "y", "p", "e">>) \/ has(<<"s", "u", "i", "t", "a", "b", "l", "e">>) THEN <<"s", "k", "i", "n", "_", "t", "y", "p", "e">>
       ELSE IF has(<<"p", "r", "i", "c", "e">>) THEN <<"p", "u", "r", "c", "h", "a", "s", "e">>
       ELSE <<"g", "e", "n", "e", "r", "a", "l">>

(* a variant that checks the what-is/are rule before the price rule *)
AnswerRuleInformationalFirst(question) ==
    LET question_lower == StrLower(question)
        has(kw) == Contains(question_lower, kw)
    IN IF has(<<"w", "h", "a", "t", " ", "i", "s">>) \/ has(<<"w", "h", "a", "t", " ", "a", "r", "e">>) THEN "informational"
       ELSE IF has(<<"p", "r", "i", "c", "e">>) THEN "price"
       ELSE IF has(<<"h", "o", "w", " ", "t", "o", " ", "u", "s", "e">>) \/ has(<<"a", "p", "p", "l", "y">>) THEN "usage"
       ELSE IF has(<<"s", "i", "d", "e", " ", "e", "f", "f", "e", "c", "t">>) \/ has(<<"s", "a", "f", "e">>) THEN "safety"
       ELSE IF has(<<"s", "k", "i", "n", " ", "t", "y", "p", "e">>) \/ has(<<"s", "u", "i", "t", "a", "b", "l", "e">>) THEN "skin_type"
       ELSE "fallback"

(* the rule of generate_answer that answers the question *)
AnswerRule(question) ==
    LET question_lower == StrLower(question)
        has(kw) == Contains(question_lower, kw)
    IN IF has(<<"p", "r", "i", "c", "e">>) THEN "price"
       ELSE IF has(<<"w", "h", "a", "t", " ", "i", "s">>) \/ has(<<"w", "h", "a", "t", " ", "a", "r", "e">>) THEN "informational"
       ELSE IF has(<<"h", "o", "w", " ", "t", "o", " ", "u", "s", "e">>) \/ has(<<"a", "p", "p", "l", "y">>) THEN "usage"
       ELSE IF has(<<"s", "i", "d", "e", " ", "e", "f", "f", "e", "c", "t">>) \/ has(<<"s", "a", "f", "e">>) THEN "safety"
       ELSE IF has(<<"s", "k", "i", "n", " ", "t", "y", "p", "e">>) \/ has(<<"s", "u", "i", "t", "a", "b", "l", "e">>) THEN "skin_type"
       ELSE "fallback"

generate_answer(q, pd, h) ==
    IF q.k # "str" THEN Raise("AttributeError", h)       \* question.lower()
    ELSE
    LET question_lower == StrLower(q.s)
        has(kw) == Contains(question_lower, kw)
        product_name == ProductName(pd, h)
        rule == AnswerRule(q.s)
        block(answer) ==
            Return(ContentBlock(<<"q", "a", "_", "a", "n", "s", "w", "e", "r">>, answer,
                       Dict(<<Pair(<<"q", "u", "e", "s", "t", "i", "o", "n", "_", "t", "y", "p", "e">>, Str(_classify_question(q.s)))>>)), h)
        listed(key, verb, missing) ==
            LET v == DictGet(pd, key, List(<<>>))
                joined == Join(<<",", " ">>, StrsOf(IterElems(v, h)))
            IN IF ~JoinOk(v, h) THEN Raise("TypeError", h)
               ELSE block(Str(IF Len(joined) > 0
                              THEN product_name \o verb \o joined \o <<".">>
                              ELSE missing \o product_name \o <<" ", "a", "r", "e", " ", "n", "o", "t", " ", "p", "r", "o", "v", "i", "d", "e", "d", ".">>))
        given(key, lead, tail) ==
            LET v == DictGet(pd, key, None)
            IN block(IF Truthy(v, h) THEN v ELSE Str(lead \o product_name \o tail))
    IN CASE rule = "price" ->
               LET price == DictGet(pd, <<"p", "r", "i", "c", "e">>, None)
               IN block(Str(IF Truthy(price, h)
                            THEN product_name \o <<" ", "c", "o", "s", "t", "s", " ">> \o PyStr(price, h) \o <<".">>
                            ELSE <<"P", "r", "i", "c", "e", " ", "f", "o", "r", " ">> \o product_name \o <<" ", "i", "s", " ", "n", "o", "t", " ", "p", "r", "o", "v", "i", "d", "e", "d", ".">>))
         [] rule = "informational" ->
               IF has(<<"i", "n", "g", "r", "e", "d", "i", "e", "n", "t">>) THEN listed(<<"k", "e", "y", "_", "i", "n", "g", "r", "e", "d", "i", "e", "n", "t", "s">>, <<" ", "c", "o", "n", "t", "a", "i", "n", "s", " ">>, <<"K", "e", "y", " ", "i", "n", "g", "r", "e", "d", "i", "e", "n", "t", "s", " ", "f", "o", "r", " ">>)
               ELSE IF has(<<"b", "e", "n", "e", "f", "i", "t">>) THEN listed(<<"b", "e", "n", "e", "f", "i", "t", "s">>, <<" ", "p", "r", "o", "v", "i", "d", "e", "s", " ">>, <<"B", "e", "n", "e", "f", "i", "t", "s", " ", "f", "o", "r", " ">>)
               ELSE LET category == DictGet(pd, <<"c", "a", "t", "e", "g", "o", "r", "y">>, None)
                    IN block(Str(IF Truthy(category, h)
                                 THEN product_name \o <<" ", "i", "s", " ", "a", " ">> \o PyStr(category, h) \o <<" ", "p", "r", "o", "d", "u", "c", "t", ".">>
                                 ELSE product_name \o <<" ", "i", "s", " ", "a", " ", "p", "r", "o", "d", "u", "c", "t", ".">>))
         [] rule = "usage" -> given(<<"u", "s", "a", "g", "e", "_", "i", "n", "s", "t", "r", "u", "c", "t", "i", "o", "n", "s">>, <<"U", "s", "a", "g", "e", " ", "i", "n", "s", "t", "r", "u", "c", "t", "i", "o", "n", "s", " ", "f", "o", "r", " ">>, <<" ", "a", "r", "e", " ", "n", "o", "t", " ", "p", "r", "o", "v", "i", "d", "e", "d", ".">>)
         [] rule = "safety" -> given(<<"s", "i", "d", "e", "_", "e", "f", "f", "e", "c", "t", "s">>, <<"S", "i", "d", "e", " ", "e", "f", "f", "e", "c", "t", "s", " ", "i", "n", "f", "o", "r", "m", "a", "t", "i", "o", "n", " ", "f", "o", "r", " ">>, <<" ", "i", "s", " ", "n", "o", "t", " ", "p", "r", "o", "v", "i", "d", "e", "d", ".">>)
         [] rule = "skin_type" ->
               LET skin_types == DictGet(pd, <<"s", "k", "i", "n", "_", "t", "y", "p", "e", "s">>, List(<<>>))
               IN IF ~Truthy(skin_types, h)
                  THEN block(Str(<<"S", "u", "i", "t", "a", "b", "l", "e", " ", "s", "k", "i", "n", " ", "t", "y", "p", "e", "s", " ", "f", "o", "r", " ">> \o product_name \o <<" ", "a", "r", "e", " ", "n", "o", "t", " ", "s", "p", "e", "c", "i", "f", "i", "e", "d", ".">>))
                  ELSE IF ~JoinOk(skin_types, h) THEN Raise("TypeError", h)
                  ELSE block(Str(product_name \o <<" ", "i", "s", " ", "s", "u", "i", "t", "a", "b", "l", "e", " ", "f", "o", "r", " ">>
                                 \o Join(<<",", " ">>, StrsOf(IterElems(skin_types, h)))
                                 \o <<" ", "s", "k", "i", "n", " ", "t", "y", "p", "e", "s", ".">>))
         [] OTHER ->
               block(Str(<<"T", "h", "e", " ", "a", "v", "a", "i", "l", "a", "b", "l", "e", " ", "p", "r", "o", "d", "u", "c", "t", " ", "d", "a", "t", "a", " ", "d", "o", "e", "s", " ", "n", "o", "t", " ", "s", "p", "e", "c", "i", "f", "y", " ", "t", "h", "i", "s", " ", "d", "e", "t", "a", "i", "l", " ", "f", "o", "r", " ">>
                         \o product_name \o <<".">>))

----------------------------------------------------------------------------
(* TemplateEngine (src/template_engine.py) *)

(* CONTENT_BLOCKS as _register_default_blocks registers it *)
DefaultBlockGenerators ==
    {<<"b", "e", "n", "e", "f", "i", "t", "s">>, <<"u", "s", "a", "g", "e">>, <<"i", "n", "g", "r", "e", "d", "i", "e", "n", "t", "s">>, <<"s", "a", "f", "e", "t", "y">>, <<"s", "k", "i", "n", "_", "t", "y", "p", "e">>, <<"p", "r", "i", "c", "e">>,
     <<"c", "o", "m", "p", "a", "r", "i", "s", "o", "n", "_", "i", "n", "g", "r", "e", "d", "i", "e", "n", "t", "s">>, <<"c", "o", "m", "p", "a", "r", "i", "s", "o", "n", "_", "b", "e", "n", "e", "f", "i", "t", "s">>, <<"c", "o", "m", "p", "a", "r", "i", "s", "o", "n", "_", "p", "r", "i", "c", "e", "s">>,
     <<"q", "a", "_", "a", "n", "s", "w", "e", "r">>}

StartsWith(s, p) == Len(s) >= Len(p) /\ SubSeq(s, 1, Len(p)) = p
EndsWith(s, p) == Len(s) >= Len(p) /\ SubSeq(s, Len(s) - Len(p) + 1, Len(s)) = p

(* a or b *)
Or(a, b, h) == IF Truthy(a, h) THEN a ELSE b

(* the generator registered under dep, called with one subject *)
CallSubjectGenerator(dep, v, h) ==
    IF ~IsDict(v) THEN Raise("AttributeError", h)       \* product_data.get
    ELSE CASE dep = <<"b", "e", "n", "e", "f", "i", "t", "s">> -> BenefitsBlock_generate(Pairs(v, h), h)
           [] dep = <<"u", "s", "a", "g", "e">> -> UsageBlock_generate(Pairs(v, h), h)
           [] dep = <<"i", "n", "g", "r", "e", "d", "i", "e", "n", "t", "s">> -> IngredientsBlock_generate(Pairs(v, h), FALSE, h)
           [] dep = <<"s", "a", "f", "e", "t", "y">> -> SafetyBlock_generate(Pairs(v, h), h)
           [] dep = <<"s", "k", "i", "n", "_", "t", "y", "p", "e">> -> SkinTypeBlock_generate(Pairs(v, h), h)
           [] dep = <<"p", "r", "i", "c", "e">> -> PriceBlock_generate(Pairs(v, h), h)
           [] OTHER -> Raise("TypeError", h)

(* the generator registered under dep, called with two subjects (both dicts) *)
CallComparisonGenerator(dep, a, b, seed, h) ==
    CASE dep = <<"c", "o", "m", "p", "a", "r", "i", "s", "o", "n", "_", "i", "n", "g", "r", "e", "d", "i", "e", "n", "t", "s">> -> compare_ingredients(Pairs(a, h), Pairs(b, h), seed, h)
      [] dep = <<"c", "o", "m", "p", "a", "r", "i", "s", "o", "n", "_", "b", "e", "n", "e", "f", "i", "t", "s">> -> compare_benefits(Pairs(a, h), Pairs(b, h), seed, h)
      [] dep = <<"c", "o", "m", "p", "a", "r", "i", "s", "o", "n", "_", "p", "r", "i", "c", "e", "s">> -> compare_prices(Pairs(a, h), Pairs(b, h), h)
      [] OTHER -> Raise("TypeError", h)

(* the generator registered under dep, called with a question and a subject *)
CallAnswerGenerator(dep, q, v, h) ==
    IF dep # <<"q", "a", "_", "a", "n", "s", "w", "e", "r">> THEN Raise("TypeError", h)
    ELSE IF q.k # "str" \/ ~IsDict(v)
    THEN Raise("AttributeError", h)       \* question.lower(), product_data.get
    ELSE generate_answer(q, Pairs(v, h), h)

(* a variant that reports only the first missing dependency *)
_check_dependencies_first(dependencies, d, gens) ==
    LET missing == SelectSeq(dependencies, LAMBDA dep : ~DictHas(d, dep) /\ dep \notin gens)
    IN IF missing = <<>> THEN <<>> ELSE <<missing[1]>>

_check_dependencies(dependencies, d, gens) ==
    SelectSeq(dependencies, LAMBDA dep : ~DictHas(d, dep) /\ dep \notin gens)

(* One pass of the loop of _generate_content_blocks over the dependency dep: *)
(* whether a generator was invoked, the arguments it was called with, and    *)
(* its result.                                                               *)
Skipped(h) == [invoked |-> FALSE, args |-> <<>>, r |-> Raise("", h)]
Invoked(args, r) == [invoked |-> TRUE, args |-> args, r |-> r]

ResolveComparison(dep, product_a, product_b, seed, h) ==
    IF IsDict(product_a) /\ IsDict(product_b)
    THEN IF Contains(dep, <<"i", "n", "g", "r", "e", "d", "i", "e", "n", "t", "s">>) \/ Contains(dep, <<"b", "e", "n", "e", "f", "i", "t", "s">>)
            \/ Contains(dep, <<"p", "r", "i", "c", "e", "s">>)
         THEN Invoked(<<product_a, product_b>>,
                      CallComparisonGenerator(dep, product_a, product_b, seed, h))
         ELSE Skipped(h)
    ELSE Skipped(h)

(* a variant that calls every generator with the one subject *)
ResolveOneSubject(dep, d, seed, h) ==
    IF DictHas(d, <<"p", "r", "o", "d", "u", "c", "t", "_", "d", "a", "t", "a">>)
    THEN Invoked(<<DictGet(d, <<"p", "r", "o", "d", "u", "c", "t", "_", "d", "a", "t", "a">>, None)>>,
                 CallSubjectGenerator(dep, DictGet(d, <<"p", "r", "o", "d", "u", "c", "t", "_", "d", "a", "t", "a">>, None), h))
    ELSE Skipped(h)

ResolveOne(dep, d, seed, h) ==
    IF StartsWith(dep, <<"c", "o", "m", "p", "a", "r", "i", "s", "o", "n">>)
    THEN ResolveComparison(dep,
             Or(DictGet(d, <<"p", "r", "o", "d", "u", "c", "t", "_", "a", "_", "f", "u", "l", "l">>, None), DictGet(d, <<"p", "r", "o", "d", "u", "c", "t", "_", "a">>, None), h),
             Or(DictGet(d, <<"p", "r", "o", "d", "u", "c", "t", "_", "b", "_", "f", "u", "l", "l">>, None), DictGet(d, <<"p", "r", "o", "d", "u", "c", "t", "_", "b">>, None), h),
             seed, h)
    ELSE IF EndsWith(dep, <<"_", "a", "n", "s", "w", "e", "r">>)
    THEN IF DictHas(d, <<"q", "u", "e", "s", "t", "i", "o", "n">>) /\ DictHas(d, <<"p", "r", "o", "d", "u", "c", "t", "_", "d", "a", "t", "a">>)
         THEN Invoked(<<DictGet(d, <<"q", "u", "e", "s", "t", "i", "o", "n">>, None), DictGet(d, <<"p", "r", "o", "d", "u", "c", "t", "_", "d", "a", "t", "a">>, None)>>,
                      CallAnswerGenerator(dep, DictGet(d, <<"q", "u", "e", "s", "t", "i", "o", "n">>, None),
                                          DictGet(d, <<"p", "r", "o", "d", "u", "c", "t", "_", "d", "a", "t", "a">>, None), h))
         ELSE Skipped(h)
    ELSE IF DictHas(d, <<"p", "r", "o", "d", "u", "c", "t", "_", "d", "a", "t", "a">>)
         THEN Invoked(<<DictGet(d, <<"p", "r", "o", "d", "u", "c", "t", "_", "d", "a", "t", "a">>, None)>>,
                      CallSubjectGenerator(dep, DictGet(d, <<"p", "r", "o", "d", "u", "c", "t", "_", "d", "a", "t", "a">>, None), h))
         ELSE Skipped(h)

(* a generator call: the dependency, the arguments, and what came of it *)
GeneratorCall(dep, o) ==
    [name |-> dep, args |-> o.args, raised |-> o.r.raised, value |-> o.r.value]

(* a variant whose except clause prints no warning *)
StoreBlockSilently(dep, o, s) ==
    IF ~o.invoked THEN s
    ELSE IF o.r.raised
    THEN [enriched |-> s.enriched,
          log |-> Append(s.log, [ev |-> "generate", name |-> dep]),
          calls |-> Append(s.calls, GeneratorCall(dep, o))]
    ELSE [enriched |-> DictSet(s.enriched, dep, o.r.value),
          log |-> Append(s.log, [ev |-> "generate", name |-> dep]),
          calls |-> Append(s.calls, GeneratorCall(dep, o))]

(* a variant that stores the block under the block's own type *)
StoreBlockByType(dep, o, s) ==
    IF ~o.invoked THEN s
    ELSE IF o.r.raised
    THEN [enriched |-> s.enriched,
          log |-> s.log \o <<[ev |-> "generate", name |-> dep], [ev |-> "warning", name |-> dep]>>,
          calls |-> Append(s.calls, GeneratorCall(dep, o))]
    ELSE [enriched |-> DictSet(s.enriched, o.r.value.block_type, o.r.value),
          log |-> Append(s.log, [ev |-> "generate", name |-> dep]),
          calls |-> Append(s.calls, GeneratorCall(dep, o))]

(* the body of the loop once dependency dep was resolved to o, s being the  *)
(* copy, the log and the generator calls so far (a generator that raises is *)
(* logged as a warning)                                                     *)
StoreBlock(dep, o, s) ==
    IF ~o.invoked THEN s
    ELSE IF o.r.raised
    THEN [enriched |-> s.enriched,
          log |-> s.log \o <<[ev |-> "generate", name |-> dep], [ev |-> "warning", name |-> dep]>>,
          calls |-> Append(s.calls, GeneratorCall(dep, o))]
    ELSE [enriched |-> DictSet(s.enriched, dep, o.r.value),
          log |-> Append(s.log, [ev |-> "generate", name |-> dep]),
          calls |-> Append(s.calls, GeneratorCall(dep, o))]

(* a variant that resolves a dependency the caller already supplied *)
ResolvesSupplied(dep, enriched, gens) == dep \in gens

(* if dep not in enriched_data and dep in self.block_generators *)
Resolves(dep, enriched, gens) == ~DictHas(enriched, dep) /\ dep \in gens

(* a variant whose loop ends at the first generator that raises *)
RECURSIVE GenerateFromUntilRaised(_, _, _, _, _, _, _)
GenerateFromUntilRaised(deps, i, d, s, gens, seed, h) ==
    IF i > Len(deps) THEN s
    ELSE IF Len(s.calls) > 0 /\ s.calls[Len(s.calls)].raised THEN s
    ELSE IF Resolves(deps[i], s.enriched, gens)
    THEN GenerateFromUntilRaised(deps, i + 1, d,
                                 StoreBlock(deps[i], ResolveOne(deps[i], d, seed, h), s),
                                 gens, seed, h)
    ELSE GenerateFromUntilRaised(deps, i + 1, d, s, gens, seed, h)

(* the loop of _generate_content_blocks from dependency i on; d is the caller's *)
(* mapping, s the copy the blocks are stored in, the log and the calls so far   *)
RECURSIVE GenerateFrom(_, _, _, _, _, _, _)
GenerateFrom(deps, i, d, s, gens, seed, h) ==
    IF i > Len(deps) THEN s
    ELSE IF Resolves(deps[i], s.enriched, gens)
    THEN GenerateFrom(deps, i + 1, d, StoreBlock(deps[i], ResolveOne(deps[i], d, seed, h), s),
                      gens, seed, h)
    ELSE GenerateFrom(deps, i + 1, d, s, gens, seed, h)

(* data.copy(): a new mapping with the same values (the same objects) *)
ShallowCopy(d) == d

(* returns the enriched copy, the log, and the generator calls made *)
_generate_content_blocks(template, d, gens, seed, h) ==
    GenerateFrom(template.dependencies, 1, d,
                 [enriched |-> ShallowCopy(d), log |-> <<>>, calls |-> <<>>], gens, seed, h)

(* the outcome of an engine call *)
Outcome(op, name, fmt, raised, exc, missing, value, log) ==
    [op |-> op, name |-> name, fmt |-> fmt, raised |-> raised, exc |-> exc,
     missing |-> missing, value |-> value, log |-> log]

NoCall == Outcome("none", "", "", FALSE, "", <<>>, None, <<>>)

(* no dependency resolution was run *)
Unresolved == [enriched |-> <<>>, log |-> <<>>, calls |-> <<>>]

(* render_template raises: the outcome, the heap after it, and what the   *)
(* dependency resolution returned. The three ValueErrors are told apart by *)
(* their message.                                                         *)
Fails(template_name, output_format, exc, missing, log, h) ==
    [out |-> Outcome("render", template_name, output_format, TRUE, exc, missing, None, log),
     heap |-> h, resolved |-> Unresolved]

(* the return of render_template, r being the outcome of renderer.render *)
Rendered(template_name, output_format, r) ==
    IF r.raised THEN Fails(template_name, output_format, r.exc, <<>>, r.log, r.heap)
    ELSE [out |-> Outcome("render", template_name, output_format, FALSE, "", <<>>,
                          r.value, r.log),
          heap |-> r.heap, resolved |-> Unresolved]

(* r, the dependency resolution having returned g *)
After(g, r) == [r EXCEPT !.resolved = g]

(* the renderer lookup and the rendering, g being the enriched mapping *)
RenderWith(template, template_name, output_format, rends, g, h) ==
    IF output_format \notin rends
    THEN After(g, Fails(template_name, output_format, "RendererNotFound", <<>>, g.log, h))
    ELSE After(g, Rendered(template_name, output_format, render(template, g.enriched, h, g.log)))

(* a variant without the dependency check *)
RenderFoundUnchecked(template, template_name, d, output_format, rends, gens, seed, h) ==
    RenderWith(template, template_name, output_format, rends,
               _generate_content_blocks(template, d, gens, seed, h), h)

(* render_template from the dependency check on, template being the one found *)
RenderFound(template, template_name, d, output_format, rends, gens, seed, h) ==
    IF Len(_check_dependencies(template.dependencies, d, gens)) > 0
    THEN Fails(template_name, output_format, "MissingDependencies",
               _check_dependencies(template.dependencies, d, gens), <<>>, h)
    ELSE RenderWith(template, template_name, output_format, rends,
                    _generate_content_blocks(template, d, gens, seed, h), h)

(* a variant that looks the renderer up before the dependencies *)
render_template_format_first(template_name, d, output_format, tpls, rends, gens, seed, h) ==
    IF ~DictHas(tpls, template_name)
    THEN Fails(template_name, output_format, "TemplateNotFound", <<>>, <<>>, h)
    ELSE IF output_format \notin rends
    THEN Fails(template_name, output_format, "RendererNotFound", <<>>, <<>>, h)
    ELSE RenderFound(DictGet(tpls, template_name, None), template_name, d, output_format,
                     rends, gens, seed, h)

render_template(template_name, d, output_format, tpls, rends, gens, seed, h) ==
    IF ~DictHas(tpls, template_name)
    THEN Fails(template_name, output_format, "TemplateNotFound", <<>>, <<>>, h)
    ELSE RenderFound(DictGet(tpls, template_name, None), template_name, d, output_format,
                     rends, gens, seed, h)

(* a variant that keeps the first definition registered under a name *)
register_template_keep_first(template, tpls) ==
    IF DictHas(tpls, template.name) THEN tpls ELSE DictSet(tpls, template.name, template)

register_template(template, tpls) == DictSet(tpls, template.name, template)
(* self.renderers[format_name] = renderer; JSONTemplateRenderer is the one *)
(* renderer class                                                         *)
register_renderer(format_name, rends) == rends \cup {format_name}
list_templates(tpls) == DictKeys(tpls)

(* a variant that subscripts the mapping: an unknown name raises KeyError *)
get_template_subscript(template_name, tpls) ==
    IF DictHas(tpls, template_name)
    THEN [raised |-> FALSE, exc |-> "", value |-> DictGet(tpls, template_name, None)]
    ELSE [raised |-> TRUE, exc |-> "KeyError", value |-> None]

(* self.templates.get(template_name): the call's outcome *)
get_template(template_name, tpls) ==
    [raised |-> FALSE, exc |-> "", value |-> DictGet(tpls, template_name, None)]

----------------------------------------------------------------------------
(* The agents (src/agent_framework.py and src/*_agent.py) and the pipeline  *)
(* (src/orchestrator.py, src/main.py). Agent names, status values, artifact *)
(* keys and file names are plain strings. What an agent computes from its   *)
(* input is modelled with the page generators and the engine; here the data *)
(* of a result is named by the artifact it is, and an agent's outcome is    *)
(* the return statement through which process leaves.                       *)

(* ContentOrchestrator.steps: the agents, in pipeline order *)
Steps ==
    <<"DataParserAgent", "QuestionGeneratorAgent", "CompetitorAgent",
      "ContentGeneratorAgent", "JsonOutputAgent">>
AgentNames == {Steps[i] : i \in 1..Len(Steps)}

(* AgentStatus *)
IDLE == "idle"
RUNNING == "running"
COMPLETED == "completed"
FAILED == "failed"

(* the data of a result: the artifact it is *)
Data(of) == [k |-> "data", of |-> of]

(* errors is a list of messages; the empty list also stands for errors=None *)
AgentResult(agent_name, status, d, errors) ==
    [agent_name |-> agent_name, status |-> status, data |-> d, errors |-> errors]

(* what process leaves behind: its result, and the agent's own status field *)
Processed(result, status) == [result |-> result, status |-> status]

(* The three ways out of process, which every agent shares: the input fails  *)
(* validate_input (status is left as set on entry), an exception reaches the *)
(* except clause, or the body completes.                                     *)
Invalid(agent_name, message) ==
    Processed(AgentResult(agent_name, FAILED, None, <<message>>), RUNNING)
Excepted(agent_name, message) ==
    Processed(AgentResult(agent_name, FAILED, None, <<message>>), FAILED)
Completed(agent_name, of) ==
    Processed(AgentResult(agent_name, COMPLETED, Data(of), <<>>), COMPLETED)

(* DataParserAgent: the raw attributes read as text, and those read as lists *)
TextAttributes == {<<"P", "r", "o", "d", "u", "c", "t", " ", "N", "a", "m", "e">>, <<"C", "o", "n", "c", "e", "n", "t", "r", "a", "t", "i", "o", "n">>, <<"H", "o", "w", " ", "t", "o", " ", "U", "s", "e">>, <<"S", "i", "d", "e", " ", "E", "f", "f", "e", "c", "t", "s">>, <<"P", "r", "i", "c", "e">>}
ListAttributes == {<<"S", "k", "i", "n", " ", "T", "y", "p", "e">>, <<"K", "e", "y", " ", "I", "n", "g", "r", "e", "d", "i", "e", "n", "t", "s">>, <<"B", "e", "n", "e", "f", "i", "t", "s">>}

DataParserAgent_validate_input(d) ==
    DictHas(d, <<"P", "r", "o", "d", "u", "c", "t", " ", "N", "a", "m", "e">>) /\ DictGet(d, <<"P", "r", "o", "d", "u", "c", "t", " ", "N", "a", "m", "e">>, None).k = "str"

(* _clean_text and _parse_list return early on a falsy value, and call      *)
(* text.strip() or re.split(..., text) on any other: only a str has these   *)
ParseRaises(d, h) ==
    \E key \in TextAttributes \cup ListAttributes :
        Truthy(DictGet(d, key, None), h) /\ DictGet(d, key, None).k # "str"

DataParserAgent_process(d, h) ==
    IF ~DataParserAgent_validate_input(d)
    THEN Invalid("DataParserAgent", "Invalid input data: missing Product Name")
    ELSE IF ParseRaises(d, h)
    THEN Excepted("DataParserAgent", "Parsing failed: ...")
    ELSE Completed("DataParserAgent", "parsed_product")

(* QuestionGeneratorAgent and CompetitorAgent validate that the input holds *)
(* a text name; valid tells whether it does, raises whether an exception    *)
(* reaches the except clause                                               *)
QuestionGeneratorAgent_process(valid, raises) ==
    IF ~valid
    THEN Invalid("QuestionGeneratorAgent", "Invalid input data: missing product name")
    ELSE IF raises
    THEN Excepted("QuestionGeneratorAgent", "Question generation failed: ...")
    ELSE Completed("QuestionGeneratorAgent", "questions")

CompetitorAgent_process(valid, raises) ==
    IF ~valid
    THEN Invalid("CompetitorAgent", "Invalid input: expected parsed product data with 'name'")
    ELSE IF raises
    THEN Excepted("CompetitorAgent", "Competitor generation failed: ...")
    ELSE Completed("CompetitorAgent", "product_b")

(* ContentGeneratorAgent validates that product_a, product_b and questions *)
(* are mappings                                                            *)
ContentGeneratorAgent_process(valid, raises) ==
    IF ~valid
    THEN Invalid("ContentGeneratorAgent", "Invalid input: expected product_a, product_b, questions")
    ELSE IF raises
    THEN Excepted("ContentGeneratorAgent", "Content generation failed: ...")
    ELSE Completed("ContentGeneratorAgent", "pages")

(* JsonOutputAgent: file_map in its order, then the graph *)
FileMap ==
    <<[key |-> "faq_page", filename |-> "faq.json"],
      [key |-> "product_page", filename |-> "product_page.json"],
      [key |-> "comparison_page", filename |-> "comparison_page.json"]>>

(* the files process writes, in order: the pages present, then the graph *)
FilesToWrite(pages, graph) ==
    [i \in 1..Len(SelectSeq(FileMap, LAMBDA e : e.key \in pages)) |->
        SelectSeq(FileMap, LAMBDA e : e.key \in pages)[i].filename]
    \o (IF graph THEN <<"graph.json">> ELSE <<>>)

(* a file open(path, "w") created: complete once json.dump returned *)
File(name, complete) == [name |-> name, complete |-> complete]

(* The directory after the writes stop at file number failAt of todo: the   *)
(* files before it are complete, and that file exists, truncated or partly  *)
(* written, when open succeeded and json.dump raised (created). failAt = 0  *)
(* is os.makedirs raising; failAt > Len(todo) is no failure.                *)
WrittenFiles(todo, failAt, created) ==
    { File(todo[i], TRUE) : i \in 1..Min(Max(failAt - 1, 0), Len(todo)) }
    \cup (IF failAt \in 1..Len(todo) /\ created THEN {File(todo[failAt], FALSE)} ELSE {})

(* process from os.makedirs on, todo being the files to write *)
WriteAll(todo, failAt, created) ==
    [files |-> WrittenFiles(todo, failAt, created),
     processed |-> IF failAt > Len(todo)
                   THEN Completed("JsonOutputAgent", "written_files")
                   ELSE Excepted("JsonOutputAgent", "JSON write failed: ...")]

(* valid: output_dir is a str and pages a dict; pages: the keys of pages; *)
(* graph: the input holds a graph                                         *)
JsonOutputAgent_process(valid, pages, graph, failAt, created) ==
    IF ~valid
    THEN [files |-> {},
          processed |-> Invalid("JsonOutputAgent", "Invalid input: expected output_dir and pages dict")]
    ELSE WriteAll(FilesToWrite(pages, graph), failAt, created)

(* _run_agent from the result on: the data it returns, or the RuntimeError *)
(* it raises                                                               *)
NoError == [raised |-> FALSE, exc |-> "", agent_name |-> "", errors |-> <<>>]
RuntimeError(agent_name, errors) ==
    [raised |-> TRUE, exc |-> "RuntimeError", agent_name |-> agent_name, errors |-> errors]

(* a variant that hands on the data of whatever result it gets *)
_run_agent_lenient(result) == [error |-> NoError, data |-> result.data]

_run_agent(result) ==
    IF result.status # COMPLETED \/ result.data = None
    THEN [error |-> RuntimeError(result.agent_name,
                                 IF result.errors # <<>> THEN result.errors
                                 ELSE <<"Unknown error">>),
          data |-> None]
    ELSE [error |-> NoError, data |-> result.data]

(* the artifacts key run_pipeline stores each agent's data under *)
ArtifactOf(agent_name) ==
    CASE agent_name = "DataParserAgent" -> "parsed_product"
      [] agent_name = "QuestionGeneratorAgent" -> "questions"
      [] agent_name = "CompetitorAgent" -> "product_b"
      [] agent_name = "ContentGeneratorAgent" -> "pages"
      [] OTHER -> "written_files"

(* the step after agent_name in run_pipeline *)
StepAfter(agent_name) ==
    CASE agent_name = "DataParserAgent" -> "QuestionGeneratorAgent"
      [] agent_name = "QuestionGeneratorAgent" -> "CompetitorAgent"
      [] agent_name = "CompetitorAgent" -> "ContentGeneratorAgent"
      [] agent_name = "ContentGeneratorAgent" -> "JsonOutputAgent"
      [] OTHER -> "returned"

(* the modules imported, every agent registered and idle, main not started *)
PipelineIdle ==
    /\ pc = "idle"
    /\ agent_status = [a \in AgentNames |-> IDLE]
    /\ results = <<>>
    /\ artifacts = <<>>
    /\ files = {}
    /\ error = NoError
    /\ exit_code = None

----------------------------------------------------------------------------
(* The callers' inputs *)

(* the most register_template calls of one run *)
MaxRegs == 3

(* the caller's dict objects: two subject records, a raw block mapping with *)
(* metadata, and a mapping with no content key                              *)
InitHeap ==
    <<
      <<Pair(<<"n", "a", "m", "e">>, Str(<<"X", "a">>)), Pair(<<"b", "e", "n", "e", "f", "i", "t", "s">>, List(<<Str(<<"b">>)>>)),
        Pair(<<"k", "e", "y", "_", "i", "n", "g", "r", "e", "d", "i", "e", "n", "t", "s">>, List(<<Str(<<"x">>), Str(<<"y">>)>>)), Pair(<<"p", "r", "i", "c", "e">>, Str(<<"9">>))>>,
      <<Pair(<<"n", "a", "m", "e">>, Str(<<"Z">>)), Pair(<<"k", "e", "y", "_", "i", "n", "g", "r", "e", "d", "i", "e", "n", "t", "s">>, List(<<Str(<<"y">>), Str(<<"z">>)>>)),
        Pair(<<"b", "e", "n", "e", "f", "i", "t", "s">>, None)>>,
      <<Pair(<<"t", "y", "p", "e">>, Str(<<"t">>)), Pair(<<"c", "o", "n", "t", "e", "n", "t">>, Str(<<"c">>)),
        Pair(<<"m", "e", "t", "a", "d", "a", "t", "a">>, Dict(<<Pair(<<"n", "o", "t", "e">>, Num(1))>>))>>,
      <<Pair(<<"t", "y", "p", "e">>, Str(<<"t">>)), Pair(<<"m", "e", "t", "a", "d", "a", "t", "a">>, Dict(<<>>))>>
    >>

(* the contexts a caller passes to render_template *)
Contexts ==
    { <<>>,
      <<Pair(<<"p", "r", "o", "d", "u", "c", "t", "_", "d", "a", "t", "a">>, Ref(1)), Pair(<<"q", "u", "e", "s", "t", "i", "o", "n">>, Str(<<"p", "r", "i", "c", "e", "?">>)),
        Pair(<<"p", "r", "o", "d", "u", "c", "t", "_", "a">>, Ref(1)), Pair(<<"p", "r", "o", "d", "u", "c", "t", "_", "b">>, Ref(2))>>,
      <<Pair(<<"a">>, Ref(3)), Pair(<<"b">>, Ref(3)), Pair(<<"p", "r", "o", "d", "u", "c", "t", "_", "d", "a", "t", "a">>, Ref(2))>>,
      <<Pair(<<"b">>, Ref(3)), Pair(<<"p", "r", "i", "c", "e">>, Str(<<"f", "r", "e", "e">>)),
        Pair(<<"n", "o", "n", "e", "x", "i", "s", "t", "e", "n", "t", "_", "b", "l", "o", "c", "k">>, Num(1)), Pair(<<"z", "z">>, Num(2))>>,
      <<Pair(<<"b">>, Ref(4)), Pair(<<"p", "r", "o", "d", "u", "c", "t", "_", "d", "a", "t", "a">>, Ref(1))>> }

NoFormat == None
Format(pairs) == Dict(pairs)

(* the definitions a caller registers *)
TplBlocks ==
    TemplateDefinition("page", <<"b", "l", "o", "c", "k", "s">>,
        <<TemplateField(<<"p", "r", "i", "c", "e">>, "block", TRUE, None, NoFormat),
          TemplateField(<<"c", "o", "m", "p", "a", "r", "i", "s", "o", "n", "_", "i", "n", "g", "r", "e", "d", "i", "e", "n", "t", "s">>, "block", TRUE, None, NoFormat),
          TemplateField(<<"q", "a", "_", "a", "n", "s", "w", "e", "r">>, "block", TRUE, None, Format(<<Pair(<<"c", "o", "n", "t", "e", "n", "t", "_", "o", "n", "l", "y">>, Bool(TRUE))>>)),
          TemplateField(<<"o">>, "text", FALSE, None, NoFormat)>>,
        <<<<"p", "r", "i", "c", "e">>, <<"c", "o", "m", "p", "a", "r", "i", "s", "o", "n", "_", "i", "n", "g", "r", "e", "d", "i", "e", "n", "t", "s">>, <<"q", "a", "_", "a", "n", "s", "w", "e", "r">>>>,
        Dict(<<Pair(<<"n", "o", "t", "e">>, Num(1))>>))
TplMissing ==
    TemplateDefinition("page", <<"m", "i", "s", "s", "i", "n", "g">>,
        <<TemplateField(<<"p", "r", "i", "c", "e">>, "block", TRUE, None, NoFormat)>>,
        <<<<"n", "o", "n", "e", "x", "i", "s", "t", "e", "n", "t", "_", "b", "l", "o", "c", "k">>, <<"p", "r", "i", "c", "e">>, <<"z", "z">>>>, None)
TplAlias ==
    TemplateDefinition("aux", <<"a", "l", "i", "a", "s">>,
        <<TemplateField(<<"a">>, "text", TRUE, None, NoFormat),
          TemplateField(<<"b">>, "block", TRUE, None, Format(<<Pair(<<"i", "n", "c", "l", "u", "d", "e", "_", "m", "e", "t", "a", "d", "a", "t", "a">>, Bool(FALSE))>>))>>,
        <<>>, None)
TplOnly ==
    TemplateDefinition("aux", <<"o", "n", "l", "y">>,
        <<TemplateField(<<"b">>, "block", TRUE, None, Format(<<Pair(<<"c", "o", "n", "t", "e", "n", "t", "_", "o", "n", "l", "y">>, Bool(TRUE))>>)),
          TemplateField(<<"g">>, "text", FALSE, None, NoFormat),
          TemplateField(<<"t">>, "text", TRUE, Str(<<"h", "i">>), Format(<<Pair(<<"c", "a", "p", "i", "t", "a", "l", "i", "z", "e">>, Bool(TRUE))>>))>>,
        <<<<"b", "e", "n", "e", "f", "i", "t", "s">>>>, None)

TemplateDefs == {TplBlocks, TplMissing, TplAlias, TplOnly}
TemplateNames == {"page", "aux", "absent"}
Formats == {"json", "xml"}
HashSeeds == {0, 1}

----------------------------------------------------------------------------
(* The engine as a state machine: the state after TemplateEngine(), and one *)
(* action per public method.                                                *)

NoDirectCall == [fn |-> "none"]

EngineInit ==
    /\ templates = <<>>
    /\ renderers = {"json"}
    /\ block_generators = DefaultBlockGenerators
    /\ last = NoCall
    /\ prev = NoCall
    /\ regLog = <<>>

(* the hash seed is drawn for the contexts that hold two subjects to compare: *)
(* no other rendering iterates a set                                         *)
Init ==
    /\ EngineInit
    /\ heap = InitHeap
    /\ data \in Contexts
    /\ hashSeed \in HashSeeds
    /\ (DictHas(data, <<"p", "r", "o", "d", "u", "c", "t", "_", "a">>) \/ hashSeed = 0)
    /\ call = NoDirectCall
    /\ PipelineIdle

RegisterTemplate(t) ==
    /\ Len(regLog) < MaxRegs
    /\ templates' = register_template(t, templates)
    /\ regLog' = Append(regLog, t)
    /\ last' = Outcome("register", t.name, "", FALSE, "", <<>>, None, <<>>)
    /\ prev' = NoCall
    /\ UNCHANGED <<renderers, block_generators, heap, data, hashSeed, call, pipelineVars>>

RegisterRenderer(format_name) ==
    /\ renderers' = register_renderer(format_name, renderers)
    /\ last' = Outcome("register_renderer", format_name, "", FALSE, "", <<>>, None, <<>>)
    /\ prev' = NoCall
    /\ UNCHANGED <<templates, block_generators, heap, data, hashSeed, regLog, call, pipelineVars>>

(* the state after render_template, r being its outcome *)
AfterRender(r) ==
    /\ last' = r.out
    /\ prev' = IF last.op = "render" /\ last.name = r.out.name /\ last.fmt = r.out.fmt
               THEN last ELSE NoCall
    /\ heap' = r.heap
    /\ UNCHANGED <<templates, renderers, block_generators, data, hashSeed, regLog, call, pipelineVars>>

RenderTemplate(template_name, output_format) ==
    AfterRender(render_template(template_name, data, output_format, templates, renderers,
                                block_generators, hashSeed, heap))

(* the state after get_template, r being its outcome *)
AfterGet(template_name, r) ==
    /\ last' = Outcome("get", template_name, "", r.raised, r.exc, <<>>, r.value, <<>>)
    /\ prev' = NoCall
    /\ UNCHANGED <<templates, renderers, block_generators, heap, data, hashSeed, regLog, call, pipelineVars>>

GetTemplate(template_name) == AfterGet(template_name, get_template(template_name, templates))

ListTemplates ==
    /\ last' = Outcome("list", "", "", FALSE, "", <<>>, List(list_templates(templates)), <<>>)
    /\ prev' = NoCall
    /\ UNCHANGED <<templates, renderers, block_generators, heap, data, hashSeed, regLog, call, pipelineVars>>

Next ==
    \/ \E t \in TemplateDefs : RegisterTemplate(t)
    \/ \E f \in Formats : RegisterRenderer(f)
    \/ \E n \in TemplateNames, f \in Formats : RenderTemplate(n, f)
    \/ \E n \in TemplateNames : GetTemplate(n)
    \/ ListTemplates

Spec == Init /\ [][Next]_vars

----------------------------------------------------------------------------
(* The product page (src/templates/product_template.py). The subject records *)
(* are those the parser produces: text attributes and lists of text.         *)

create_product_template ==
    TemplateDefinition("product_page", <<"C", "o", "m", "p", "r", "e", "h", "e", "n", "s", "i", "v", "e", " ", "p", "r", "o", "d", "u", "c", "t", " ", "d", "e", "s", "c", "r", "i", "p", "t", "i", "o", "n", " ", "p", "a", "g", "e">>,
        <<TemplateField(<<"p", "r", "o", "d", "u", "c", "t", "_", "n", "a", "m", "e">>, "text", TRUE, None, Format(<<Pair(<<"c", "a", "p", "i", "t", "a", "l", "i", "z", "e">>, Bool(TRUE))>>)),
          TemplateField(<<"t", "a", "g", "l", "i", "n", "e">>, "text", FALSE, Str(<<"S", "k", "i", "n", "c", "a", "r", "e", " ", "p", "r", "o", "d", "u", "c", "t">>), NoFormat),
          TemplateField(<<"c", "a", "t", "e", "g", "o", "r", "y">>, "text", FALSE, None, Format(<<Pair(<<"c", "a", "p", "i", "t", "a", "l", "i", "z", "e">>, Bool(TRUE))>>)),
          TemplateField(<<"d", "e", "s", "c", "r", "i", "p", "t", "i", "o", "n">>, "text", TRUE, None, NoFormat),
          TemplateField(<<"k", "e", "y", "_", "f", "e", "a", "t", "u", "r", "e", "s">>, "list", TRUE, None, Format(<<Pair(<<"m", "a", "x", "_", "i", "t", "e", "m", "s">>, Num(6))>>)),
          TemplateField(<<"i", "n", "g", "r", "e", "d", "i", "e", "n", "t", "s">>, "block", TRUE, None, NoFormat),
          TemplateField(<<"b", "e", "n", "e", "f", "i", "t", "s">>, "block", TRUE, None, NoFormat),
          TemplateField(<<"u", "s", "a", "g", "e">>, "block", TRUE, None, NoFormat),
          TemplateField(<<"s", "a", "f", "e", "t", "y">>, "block", FALSE, None, NoFormat),
          TemplateField(<<"s", "k", "i", "n", "_", "t", "y", "p", "e">>, "block", TRUE, None, NoFormat),
          TemplateField(<<"p", "r", "i", "c", "e">>, "block", TRUE, None, NoFormat)>>,
        <<<<"b", "e", "n", "e", "f", "i", "t", "s">>, <<"u", "s", "a", "g", "e">>, <<"i", "n", "g", "r", "e", "d", "i", "e", "n", "t", "s">>, <<"s", "a", "f", "e", "t", "y">>, <<"s", "k", "i", "n", "_", "t", "y", "p", "e">>, <<"p", "r", "i", "c", "e">>>>,
        Dict(<<Pair(<<"p", "a", "g", "e", "_", "t", "y", "p", "e">>, Str(<<"p", "r", "o", "d", "u", "c", "t">>)),
               Pair(<<"r", "e", "q", "u", "i", "r", "e", "s", "_", "f", "u", "l", "l", "_", "p", "r", "o", "d", "u", "c", "t", "_", "d", "a", "t", "a">>, Bool(TRUE)),
               Pair(<<"s", "u", "p", "p", "o", "r", "t", "s", "_", "r", "i", "c", "h", "_", "c", "o", "n", "t", "e", "n", "t">>, Bool(TRUE))>>))

(* the engine once the module is imported: register_product_template() *)
register_product_template(tpls) == register_template(create_product_template, tpls)

(* the text of the first n items of a list of text *)
FirstTexts(v, n) == StrsOf(SliceTo(Elems(v), n))

_generate_description(pd, h) ==
    LET name == DictGet(pd, <<"n", "a", "m", "e">>, Str(<<"T", "h", "i", "s", " ", "p", "r", "o", "d", "u", "c", "t">>))
        benefits == DictGet(pd, <<"b", "e", "n", "e", "f", "i", "t", "s">>, List(<<>>))
        skin_types == DictGet(pd, <<"s", "k", "i", "n", "_", "t", "y", "p", "e", "s">>, List(<<>>))
        ingredients == DictGet(pd, <<"k", "e", "y", "_", "i", "n", "g", "r", "e", "d", "i", "e", "n", "t", "s">>, List(<<>>))
        head == PyStr(name, h) \o <<" ", "i", "s", " ", "a", " ">>
                \o StrLower(DictGet(pd, <<"c", "a", "t", "e", "g", "o", "r", "y">>, Str(<<"s", "k", "i", "n", "c", "a", "r", "e">>)).s) \o <<" ", "p", "r", "o", "d", "u", "c", "t">>
        with == IF Truthy(benefits, h)
                THEN <<" ", "w", "i", "t", "h", " ", "l", "i", "s", "t", "e", "d", " ", "b", "e", "n", "e", "f", "i", "t", "s", " ", "i", "n", "c", "l", "u", "d", "i", "n", "g", " ">> \o Join(<<",", " ">>, FirstTexts(benefits, 2))
                ELSE <<>>
        skin == IF Truthy(skin_types, h)
                THEN <<",", " ", "l", "i", "s", "t", "e", "d", " ", "a", "s", " ", "s", "u", "i", "t", "a", "b", "l", "e", " ", "f", "o", "r", " ">>
                     \o (IF PyLen(skin_types, h) > 1
                         THEN Join(<<" ", "a", "n", "d", " ">>, FirstTexts(skin_types, 2))
                         ELSE PyStr(Elems(skin_types)[1], h))
                     \o <<" ", "s", "k", "i", "n">>
                ELSE <<>>
        highlight ==
            IF Truthy(ingredients, h)
            THEN <<" ", "I", "t", " ", "i", "n", "c", "l", "u", "d", "e", "s", " ">> \o PyStr(Elems(ingredients)[1], h) \o <<" ", "a", "s", " ", "a", " ", "k", "e", "y", " ", "i", "n", "g", "r", "e", "d", "i", "e", "n", "t", ",">>
                 \o (IF Truthy(DictGet(pd, <<"c", "o", "n", "c", "e", "n", "t", "r", "a", "t", "i", "o", "n">>, None), h)
                     THEN <<" ", "d", "e", "l", "i", "v", "e", "r", "e", "d", " ", "a", "t", " ">> \o PyStr(DictGet(pd, <<"c", "o", "n", "c", "e", "n", "t", "r", "a", "t", "i", "o", "n">>, None), h)
                          \o <<" ", "c", "o", "n", "c", "e", "n", "t", "r", "a", "t", "i", "o", "n", ",">>
                     ELSE <<>>)
                 \o (IF Truthy(benefits, h)
                     THEN <<" ", "a", "n", "d", " ", "i", "s", " ", "d", "e", "s", "c", "r", "i", "b", "e", "d", " ", "a", "s", " ", "s", "u", "p", "p", "o", "r", "t", "i", "n", "g", " ">>
                          \o Join(<<",", " ">>, StrsOf(Elems(benefits))) \o <<".">>
                     ELSE <<".">>)
            ELSE <<>>
    IN Str(head \o with \o skin \o <<".">> \o highlight)

_generate_tagline(pd, h) ==
    LET benefits == DictGet(pd, <<"b", "e", "n", "e", "f", "i", "t", "s">>, List(<<>>))
        ingredients == DictGet(pd, <<"k", "e", "y", "_", "i", "n", "g", "r", "e", "d", "i", "e", "n", "t", "s">>, List(<<>>))
    IN IF Truthy(benefits, h) THEN Str(<<"B", "e", "n", "e", "f", "i", "t", " ", "f", "o", "c", "u", "s", ":", " ">> \o PyStr(Elems(benefits)[1], h))
       ELSE IF Truthy(ingredients, h) THEN Str(<<"F", "e", "a", "t", "u", "r", "i", "n", "g", " ">> \o PyStr(Elems(ingredients)[1], h))
       ELSE Str(<<"S", "k", "i", "n", "c", "a", "r", "e", " ", "p", "r", "o", "d", "u", "c", "t">>)

(* a variant that lists no ingredient feature *)
_generate_key_features_benefits_only(pd, h) ==
    LET benefits == DictGet(pd, <<"b", "e", "n", "e", "f", "i", "t", "s">>, List(<<>>))
    IN List([i \in 1..Len(FirstTexts(benefits, 3)) |->
                Str(<<"S", "u", "p", "p", "o", "r", "t", "s", " ">> \o StrLower(FirstTexts(benefits, 3)[i]))])

_generate_key_features(pd, h) ==
    LET benefits == DictGet(pd, <<"b", "e", "n", "e", "f", "i", "t", "s">>, List(<<>>))
        ingredients == DictGet(pd, <<"k", "e", "y", "_", "i", "n", "g", "r", "e", "d", "i", "e", "n", "t", "s">>, List(<<>>))
        concentration == DictGet(pd, <<"c", "o", "n", "c", "e", "n", "t", "r", "a", "t", "i", "o", "n">>, None)
        skin_types == DictGet(pd, <<"s", "k", "i", "n", "_", "t", "y", "p", "e", "s">>, List(<<>>))
        features ==
            [i \in 1..Len(FirstTexts(benefits, 3)) |->
                Str(<<"S", "u", "p", "p", "o", "r", "t", "s", " ">> \o StrLower(FirstTexts(benefits, 3)[i]))]
            \o (IF Truthy(ingredients, h)
                THEN <<Str(<<"C", "o", "n", "t", "a", "i", "n", "s", " ">> \o Join(<<",", " ">>, FirstTexts(ingredients, 2)))>>
                ELSE <<>>)
            \o (IF Truthy(concentration, h)
                THEN <<Str(<<"C", "o", "n", "c", "e", "n", "t", "r", "a", "t", "i", "o", "n", ":", " ">> \o PyStr(concentration, h))>>
                ELSE <<>>)
            \o (IF Truthy(skin_types, h)
                THEN IF PyLen(skin_types, h) > 1
                     THEN <<Str(<<"S", "u", "i", "t", "a", "b", "l", "e", " ", "f", "o", "r", " ", "o", "i", "l", "y", " ", "a", "n", "d", " ", "c", "o", "m", "b", "i", "n", "a", "t", "i", "o", "n", " ", "s", "k", "i", "n">>)>>
                     ELSE <<Str(<<"S", "u", "i", "t", "a", "b", "l", "e", " ", "f", "o", "r", " ">> \o PyStr(Elems(skin_types)[1], h) \o <<" ", "s", "k", "i", "n">>)>>
                ELSE <<>>)
    IN List(SliceTo(features, 6))

(* the mapping generate_product_page hands to the engine, v being the *)
(* subject record (the caller's object)                               *)
ProductTemplateData(v, h) ==
    <<Pair(<<"p", "r", "o", "d", "u", "c", "t", "_", "n", "a", "m", "e">>, DictGet(Pairs(v, h), <<"n", "a", "m", "e">>, Str(<<"P", "r", "o", "d", "u", "c", "t">>))),
      Pair(<<"t", "a", "g", "l", "i", "n", "e">>, _generate_tagline(Pairs(v, h), h)),
      Pair(<<"c", "a", "t", "e", "g", "o", "r", "y">>, DictGet(Pairs(v, h), <<"c", "a", "t", "e", "g", "o", "r", "y">>, Str(<<"S", "k", "i", "n", "c", "a", "r", "e">>))),
      Pair(<<"d", "e", "s", "c", "r", "i", "p", "t", "i", "o", "n">>, _generate_description(Pairs(v, h), h)),
      Pair(<<"k", "e", "y", "_", "f", "e", "a", "t", "u", "r", "e", "s">>, _generate_key_features(Pairs(v, h), h)),
      Pair(<<"p", "r", "o", "d", "u", "c", "t", "_", "d", "a", "t", "a">>, v)>>

generate_product_page(v, tpls, rends, gens, seed, h) ==
    render_template("product_page", ProductTemplateData(v, h), "json", tpls, rends, gens, seed, h)

----------------------------------------------------------------------------
(* Direct calls of the page generator, on subject records drawn from a *)
(* bounded set.                                                        *)

(* with or without the attribute key, the attribute taking each value of vals *)
Attribute(key, vals) == {<<>>} \cup { <<Pair(key, v)>> : v \in vals }

PageSubjects ==
    { nm \o bn \o ki \o pr \o st \o cn :
        nm \in Attribute(<<"n", "a", "m", "e">>, {Str(<<"X", " ", "S", "e", "r", "u", "m">>)}),
        bn \in Attribute(<<"b", "e", "n", "e", "f", "i", "t", "s">>,
                  {List(<<>>), List(<<Str(<<"B", "r", "i", "g", "h", "t", "e", "n", "i", "n", "g">>)>>),
                   List(<<Str(<<"B", "r", "i", "g", "h", "t", "e", "n", "i", "n", "g">>), Str(<<"G", "l", "o", "w">>)>>)}),
        ki \in Attribute(<<"k", "e", "y", "_", "i", "n", "g", "r", "e", "d", "i", "e", "n", "t", "s">>,
                  {List(<<Str(<<"V", "i", "t", "a", "m", "i", "n", " ", "C">>)>>), List(<<Str(<<"V", "i", "t", "a", "m", "i", "n", " ", "C">>), Str(<<"Z", "i", "n", "c">>)>>)}),
        pr \in Attribute(<<"p", "r", "i", "c", "e">>, {Str(<<"₹", "6", "9", "9">>)}),
        st \in Attribute(<<"s", "k", "i", "n", "_", "t", "y", "p", "e", "s">>, {List(<<Str(<<"O", "i", "l", "y">>)>>)}),
        cn \in Attribute(<<"c", "o", "n", "c", "e", "n", "t", "r", "a", "t", "i", "o", "n">>, {Str(<<"1", "0", "%">>)}) }

PageCalls ==
    { [fn |-> "generate_product_page", pd |-> pd, done |-> FALSE, out |-> NoCall]
      : pd \in PageSubjects }

PagesInit ==
    /\ templates = register_product_template(<<>>)
    /\ renderers = {"json"}
    /\ block_generators = DefaultBlockGenerators
    /\ last = NoCall
    /\ prev = NoCall
    /\ regLog = <<>>
    /\ heap = InitHeap
    /\ data = <<>>
    /\ hashSeed = 0
    /\ call \in PageCalls
    /\ PipelineIdle

(* the state after generate_product_page, r being its outcome *)
PageGenerated(r) ==
    /\ call' = [call EXCEPT !.done = TRUE, !.out = r.out]
    /\ heap' = r.heap

CallGenerateProductPage ==
    /\ call.fn = "generate_product_page" /\ ~call.done
    /\ PageGenerated(generate_product_page(Dict(call.pd), templates, renderers,
                                           block_generators, hashSeed, heap))
    /\ UNCHANGED <<templates, renderers, block_generators, data, hashSeed, last, prev, regLog, pipelineVars>>

PagesNext == CallGenerateProductPage

SpecPages == PagesInit /\ [][PagesNext]_vars

----------------------------------------------------------------------------
(* The pipeline as a state machine: main calls run_pipeline on a raw record, *)
(* run_pipeline runs the agents one after the other, and the process exits.  *)

(* the raw records handed to run_pipeline: each attribute absent, a text, or *)
(* a number                                                                  *)
RawInputs ==
    { nm \o cn \o bn \o pr :
        nm \in Attribute(<<"P", "r", "o", "d", "u", "c", "t", " ", "N", "a", "m", "e">>, {Str(<<"G", "l", "o", "w", "B", "o", "o", "s", "t", " ", "S", "e", "r", "u", "m">>), Num(5)}),
        cn \in Attribute(<<"C", "o", "n", "c", "e", "n", "t", "r", "a", "t", "i", "o", "n">>, {Str(<<"1", "0", "%">>), Num(10)}),
        bn \in Attribute(<<"B", "e", "n", "e", "f", "i", "t", "s">>, {Str(<<"B", "r", "i", "g", "h", "t", "e", "n", "i", "n", "g", ",", " ", "G", "l", "o", "w">>), Num(0)}),
        pr \in Attribute(<<"P", "r", "i", "c", "e">>, {Str(<<"₹", "6", "9", "9">>)}) }

PipelineInit ==
    /\ EngineInit
    /\ heap = InitHeap
    /\ data \in RawInputs
    /\ hashSeed = 0
    /\ call = NoDirectCall
    /\ PipelineIdle

(* run_pipeline up to its first agent: the artifacts mapping is created *)
StartPipeline ==
    /\ pc = "idle"
    /\ artifacts' = <<"raw_input", "steps", "graph">>
    /\ pc' = Steps[1]
    /\ UNCHANGED <<engineVars, agent_status, results, files, error, exit_code>>

(* run_pipeline from the return of agent_name's process on, p being what   *)
(* process left and r what _run_agent makes of its result: the data is     *)
(* stored and the next agent is up, or the RuntimeError leaves run_pipeline *)
AfterAgent(agent_name, p, r) ==
    /\ agent_status' = [agent_status EXCEPT ![agent_name] = p.status]
    /\ results' = Append(results, p.result)
    /\ error' = r.error
    /\ pc' = IF r.error.raised THEN "raised" ELSE StepAfter(agent_name)
    /\ artifacts' = IF r.error.raised THEN artifacts
                    ELSE Append(artifacts, ArtifactOf(agent_name))

RunAgent(agent_name, p) == AfterAgent(agent_name, p, _run_agent(p.result))

RunDataParser ==
    /\ pc = "DataParserAgent"
    /\ RunAgent("DataParserAgent", DataParserAgent_process(data, heap))
    /\ UNCHANGED <<engineVars, files, exit_code>>

(* the parsed product holds a text name (data_parser_agent.py:56), so the   *)
(* input of the next two agents is valid; an exception in a body is for the *)
(* environment to raise                                                     *)
RunQuestionGenerator ==
    /\ pc = "QuestionGeneratorAgent"
    /\ \E raises \in BOOLEAN :
          RunAgent("QuestionGeneratorAgent", QuestionGeneratorAgent_process(TRUE, raises))
    /\ UNCHANGED <<engineVars, files, exit_code>>

RunCompetitor ==
    /\ pc = "CompetitorAgent"
    /\ \E raises \in BOOLEAN :
          RunAgent("CompetitorAgent", CompetitorAgent_process(TRUE, raises))
    /\ UNCHANGED <<engineVars, files, exit_code>>

(* pages_input holds the three mappings *)
RunContentGenerator ==
    /\ pc = "ContentGeneratorAgent"
    /\ \E raises \in BOOLEAN :
          RunAgent("ContentGeneratorAgent", ContentGeneratorAgent_process(TRUE, raises))
    /\ UNCHANGED <<engineVars, files, exit_code>>

(* the state after JsonOutputAgent's process, w being what it left *)
AfterWrite(w) ==
    /\ files' = w.files
    /\ RunAgent("JsonOutputAgent", w.processed)

(* write_input holds the output directory, the three pages and the graph; *)
(* which write fails, if any, is for the file system to choose            *)
RunJsonOutput ==
    /\ pc = "JsonOutputAgent"
    /\ \E failAt \in 0..5, created \in BOOLEAN :
          AfterWrite(JsonOutputAgent_process(TRUE, {"faq_page", "product_page", "comparison_page"},
                                             TRUE, failAt, created))
    /\ UNCHANGED <<engineVars, exit_code>>

(* main: return 0 once run_pipeline returned; an exception ends the process *)
(* with status 1                                                            *)
Exit ==
    /\ pc \in {"returned", "raised"}
    /\ exit_code = None
    /\ exit_code' = Num(IF pc = "returned" THEN 0 ELSE 1)
    /\ UNCHANGED <<engineVars, pc, agent_status, results, artifacts, files, error>>

PipelineNext ==
    \/ StartPipeline
    \/ RunDataParser
    \/ RunQuestionGenerator
    \/ RunCompetitor
    \/ RunContentGenerator
    \/ RunJsonOutput
    \/ Exit

SpecPipeline == PipelineInit /\ [][PipelineNext]_vars

----------------------------------------------------------------------------
(* Direct calls of the dependency resolution and of render_template, on *)
(* templates and contexts drawn from bounded sets.                      *)

(* the most dependencies of a drawn template *)
MaxDeps == 2

(* names with a single-subject generator, the answer generator, a comparison *)
(* generator, and no generator                                               *)
DependencyNames ==
    {<<"p", "r", "i", "c", "e">>, <<"b", "e", "n", "e", "f", "i", "t", "s">>, <<"q", "a", "_", "a", "n", "s", "w", "e", "r">>, <<"c", "o", "m", "p", "a", "r", "i", "s", "o", "n", "_", "i", "n", "g", "r", "e", "d", "i", "e", "n", "t", "s">>, <<"n", "o", "n", "e", "x", "i", "s", "t", "e", "n", "t", "_", "b", "l", "o", "c", "k">>}

DependencyLists ==
    UNION { { deps \in [1..n -> DependencyNames] :
                \A i, j \in 1..n : deps[i] = deps[j] => i = j }
            : n \in 0..MaxDeps }

(* a template that declares deps, with one optional block field for each *)
ResolveTemplate(deps) ==
    TemplateDefinition("page", <<"r", "e", "s", "o", "l", "v", "e">>,
        [i \in 1..Len(deps) |-> TemplateField(deps[i], "block", FALSE, None, NoFormat)],
        deps, None)

(* the contexts: the subject key absent, a record, or a record whose       *)
(* benefits are null; with or without a question; the first subject to     *)
(* compare under either key or both, the second a record or a text; and a  *)
(* caller's own value under the name price                                 *)
ResolveContexts ==
    { pd \o q \o pa \o pb \o own :
        pd \in Attribute(<<"p", "r", "o", "d", "u", "c", "t", "_", "d", "a", "t", "a">>, {Ref(1), Ref(2)}),
        q \in Attribute(<<"q", "u", "e", "s", "t", "i", "o", "n">>, {Str(<<"p", "r", "i", "c", "e", "?">>)}),
        pa \in Attribute(<<"p", "r", "o", "d", "u", "c", "t", "_", "a">>, {Ref(1)}) \cup Attribute(<<"p", "r", "o", "d", "u", "c", "t", "_", "a", "_", "f", "u", "l", "l">>, {Ref(1)})
                  \cup {<<Pair(<<"p", "r", "o", "d", "u", "c", "t", "_", "a">>, Ref(2)), Pair(<<"p", "r", "o", "d", "u", "c", "t", "_", "a", "_", "f", "u", "l", "l">>, Ref(1))>>},
        pb \in Attribute(<<"p", "r", "o", "d", "u", "c", "t", "_", "b">>, {Ref(2), Str(<<"n", "/", "a">>)}),
        own \in Attribute(<<"p", "r", "i", "c", "e">>, {Str(<<"f", "r", "e", "e">>)}) }

(* the calls of the two entry points over the given contexts *)
ResolveCalls(contexts) ==
    { [fn |-> "_generate_content_blocks", template |-> ResolveTemplate(deps), data |-> d,
       fmt |-> "", done |-> FALSE, out |-> NoCall, resolved |-> Unresolved]
      : deps \in DependencyLists, d \in contexts }
    \cup
    { [fn |-> "render_template", template |-> ResolveTemplate(deps), data |-> d,
       fmt |-> f, done |-> FALSE, out |-> NoCall, resolved |-> Unresolved]
      : deps \in DependencyLists, d \in contexts, f \in Formats }

(* the engine with the drawn template registered; the hash seed is drawn for *)
(* the contexts that hold two subject records to compare                     *)
ResolveInit ==
    /\ call \in ResolveCalls(ResolveContexts)
    /\ templates = register_template(call.template, <<>>)
    /\ renderers = {"json"}
    /\ block_generators = DefaultBlockGenerators
    /\ last = NoCall
    /\ prev = NoCall
    /\ regLog = <<call.template>>
    /\ heap = InitHeap
    /\ data = call.data
    /\ hashSeed \in HashSeeds
    /\ (hashSeed = 0 \/ (DictGet(data, <<"p", "r", "o", "d", "u", "c", "t", "_", "b">>, None) = Ref(2)
                         /\ (DictHas(data, <<"p", "r", "o", "d", "u", "c", "t", "_", "a">>) \/ DictHas(data, <<"p", "r", "o", "d", "u", "c", "t", "_", "a", "_", "f", "u", "l", "l">>))))
    /\ PipelineIdle

(* the state after _generate_content_blocks, g being what it returned *)
AfterResolve(g) ==
    /\ call' = [call EXCEPT !.done = TRUE, !.resolved = g]
    /\ UNCHANGED heap

CallGenerateContentBlocks ==
    /\ call.fn = "_generate_content_blocks" /\ ~call.done
    /\ AfterResolve(_generate_content_blocks(call.template, data, block_generators, hashSeed, heap))
    /\ UNCHANGED <<templates, renderers, block_generators, data, hashSeed, last, prev, regLog, pipelineVars>>

(* the state after render_template, r being its outcome *)
AfterRenderTemplate(r) ==
    /\ call' = [call EXCEPT !.done = TRUE, !.out = r.out, !.resolved = r.resolved]
    /\ heap' = r.heap

CallRenderTemplate ==
    /\ call.fn = "render_template" /\ ~call.done
    /\ AfterRenderTemplate(render_template(call.template.name, data, call.fmt, templates,
                                           renderers, block_generators, hashSeed, heap))
    /\ UNCHANGED <<templates, renderers, block_generators, data, hashSeed, last, prev, regLog, pipelineVars>>

ResolveNext == CallGenerateContentBlocks \/ CallRenderTemplate

SpecResolve == ResolveInit /\ [][ResolveNext]_vars

----------------------------------------------------------------------------
(* Direct calls of the renderer and of the block generators, on inputs     *)
(* drawn from bounded sets: call holds the input, and the outcome once the *)
(* call is done.                                                            *)

(* the most fields of a drawn template *)
MaxFields == 2
(* the most key_ingredients of a drawn subject record *)
MaxIngredients == 2

Absent == [k |-> "absent"]
NoOut == [raised |-> FALSE, exc |-> "", value |-> None]
OutOf(r) == [raised |-> r.raised, exc |-> r.exc, value |-> r.value]

(* the items of seq at the positions in S, in order *)
RECURSIVE PickFrom(_, _, _)
PickFrom(seq, S, i) ==
    IF i > Len(seq) THEN <<>>
    ELSE (IF i \in S THEN <<seq[i]>> ELSE <<>>) \o PickFrom(seq, S, i + 1)

FormatOptions ==
    <<Pair(<<"c", "a", "p", "i", "t", "a", "l", "i", "z", "e">>, Bool(TRUE)), Pair(<<"u", "p", "p", "e", "r", "c", "a", "s", "e">>, Bool(TRUE)),
      Pair(<<"l", "o", "w", "e", "r", "c", "a", "s", "e">>, Bool(TRUE)), Pair(<<"m", "a", "x", "_", "l", "e", "n", "g", "t", "h">>, Num(2)),
      Pair(<<"m", "a", "x", "_", "i", "t", "e", "m", "s">>, Num(1)), Pair(<<"u", "n", "i", "q", "u", "e">>, Bool(TRUE)),
      Pair(<<"i", "n", "c", "l", "u", "d", "e", "_", "m", "e", "t", "a", "d", "a", "t", "a">>, Bool(FALSE)), Pair(<<"c", "o", "n", "t", "e", "n", "t", "_", "o", "n", "l", "y">>, Bool(TRUE))>>

(* no formatting, and every combination of the options *)
Formattings ==
    {NoFormat} \cup {Format(PickFrom(FormatOptions, S, 1)) : S \in SUBSET (1..Len(FormatOptions))}

(* the text options, two or more of them, given in the opposite order *)
ReorderedTextFormattings ==
    { Format([i \in 1..Len(PickFrom(FormatOptions, S, 1)) |->
                PickFrom(FormatOptions, S, 1)[Len(PickFrom(FormatOptions, S, 1)) + 1 - i]])
      : S \in {T \in SUBSET (1..4) : Cardinality(T) >= 2} }

(* max_items above one, with and without unique *)
LongerListFormattings ==
    { Format(<<Pair(<<"m", "a", "x", "_", "i", "t", "e", "m", "s">>, Num(n))>> \o u)
      : n \in {2, 3}, u \in {<<>>, <<Pair(<<"u", "n", "i", "q", "u", "e">>, Bool(TRUE))>>} }

FieldTypes == {"text", "list", "block", "structured", "number"}

(* the raw value shapes: text, number, sequence, sequence of mappings, mapping *)
(* with and without a content key, Block                                       *)
RawValues ==
    { Str(<<"A", ",", " ", "b", ",", ",", "A">>), Str(<<"A", ",", " ", "B", ",", " ", "B", ",", " ", "C">>), Num(7), List(<<Str(<<"a">>), Num(1), Str(<<"a">>)>>),
      List(<<Ref(3), Ref(4)>>), Ref(3), Ref(4),
      ContentBlock(<<"p", "r", "i", "c", "e">>, Str(<<"X", "a", " ", "c", "o", "s", "t", "s", " ", "9", ".">>), Dict(<<Pair(<<"h", "a", "s", "_", "p", "r", "i", "c", "e">>, Bool(TRUE))>>)),
      ContentBlock(<<"t", "e", "x", "t">>, Str(<<"c">>), None) }

(* fields with a default, of every type, and contexts that lack the field, *)
(* hold it with a null value, or hold a text                              *)
DefaultFormattings ==
    {NoFormat, Format(<<Pair(<<"i", "n", "c", "l", "u", "d", "e", "_", "m", "e", "t", "a", "d", "a", "t", "a">>, Bool(FALSE))>>),
     Format(<<Pair(<<"c", "o", "n", "t", "e", "n", "t", "_", "o", "n", "l", "y">>, Bool(TRUE))>>)}
    \cup ReorderedTextFormattings \cup LongerListFormattings
DefaultCalls ==
    { [fn |-> "_process_field", field |-> TemplateField(<<"f">>, ty, TRUE, dflt, fmt),
       data |-> d, done |-> FALSE, out |-> NoOut]
      : ty \in FieldTypes, fmt \in DefaultFormattings, dflt \in RawValues,
        d \in {<<>>, <<Pair(<<"f">>, None)>>, <<Pair(<<"f">>, Str(<<"A", ",", " ", "b", ",", ",", "A">>))>>} }

ProcessFieldCalls ==
    { [fn |-> "_process_field", field |-> TemplateField(<<"f">>, ty, TRUE, None, fmt),
       data |-> <<Pair(<<"f">>, raw)>>, done |-> FALSE, out |-> NoOut]
      : ty \in FieldTypes, fmt \in Formattings, raw \in RawValues }
    \cup
    { [fn |-> "_process_field", field |-> TemplateField(<<"f">>, "text", TRUE, None, fmt),
       data |-> <<Pair(<<"f">>, raw)>>, done |-> FALSE, out |-> NoOut]
      : fmt \in ReorderedTextFormattings, raw \in RawValues }
    \cup
    { [fn |-> "_process_field", field |-> TemplateField(<<"f">>, "list", TRUE, None, fmt),
       data |-> <<Pair(<<"f">>, raw)>>, done |-> FALSE, out |-> NoOut]
      : fmt \in LongerListFormattings, raw \in RawValues }
    \cup DefaultCalls

(* templates of up to MaxFields fields with distinct names, and contexts that *)
(* hold, for each name, no key, a null value or a text                        *)
FieldNames == {<<"e">>, <<"f">>, <<"g">>}
RenderFieldSet ==
    { TemplateField(n, ty, req, dflt, NoFormat)
      : n \in FieldNames, ty \in {"text", "block"}, req \in BOOLEAN, dflt \in {None, Str(<<"d", "d">>)} }
FieldLists ==
    UNION { { fs \in [1..n -> RenderFieldSet] :
                \A i, j \in 1..n : fs[i].name = fs[j].name => i = j }
            : n \in 1..MaxFields }
DataOf(ve, vf, vg) ==
    (IF ve = Absent THEN <<>> ELSE <<Pair(<<"e">>, ve)>>)
    \o (IF vf = Absent THEN <<>> ELSE <<Pair(<<"f">>, vf)>>)
    \o (IF vg = Absent THEN <<>> ELSE <<Pair(<<"g">>, vg)>>)
RenderData ==
    { DataOf(ve, vf, vg) : ve \in {Absent, Str(<<"v">>)}, vf, vg \in {Absent, None, Str(<<"v">>)} }

RenderCalls ==
    { [fn |-> "render", template |-> TemplateDefinition("t", <<>>, fs, <<>>, None),
       data |-> d, done |-> FALSE, out |-> NoOut]
      : fs \in FieldLists, d \in RenderData }

RenderInit ==
    /\ EngineInit
    /\ heap = InitHeap
    /\ data = <<>>
    /\ hashSeed = 0
    /\ call \in ProcessFieldCalls \cup RenderCalls
    /\ PipelineIdle

(* the state after a direct call, r being its outcome *)
Called(r) ==
    /\ call' = [call EXCEPT !.done = TRUE, !.out = OutOf(r)]
    /\ heap' = r.heap

CallProcessField ==
    /\ call.fn = "_process_field" /\ ~call.done
    /\ Called(_process_field(call.field, call.data, heap))
    /\ UNCHANGED <<templates, renderers, block_generators, data, hashSeed, last, prev, regLog, pipelineVars>>

CallRender ==
    /\ call.fn = "render" /\ ~call.done
    /\ Called(render(call.template, call.data, heap, <<>>))
    /\ UNCHANGED <<templates, renderers, block_generators, data, hashSeed, last, prev, regLog, pipelineVars>>

RenderNext == CallProcessField \/ CallRender

SpecRender == RenderInit /\ [][RenderNext]_vars

----------------------------------------------------------------------------
(* the subject records handed to the block generators *)

SingleSubjectBlocks ==
    {<<"b", "e", "n", "e", "f", "i", "t", "s">>, <<"u", "s", "a", "g", "e">>, <<"i", "n", "g", "r", "e", "d", "i", "e", "n", "t", "s">>, <<"s", "a", "f", "e", "t", "y">>, <<"s", "k", "i", "n", "_", "t", "y", "p", "e">>, <<"p", "r", "i", "c", "e">>}

(* the attribute each single-subject generator reports on *)
AttributeOf(block) ==
    CASE block = <<"b", "e", "n", "e", "f", "i", "t", "s">> -> <<"b", "e", "n", "e", "f", "i", "t", "s">>
      [] block = <<"u", "s", "a", "g", "e">> -> <<"u", "s", "a", "g", "e", "_", "i", "n", "s", "t", "r", "u", "c", "t", "i", "o", "n", "s">>
      [] block = <<"i", "n", "g", "r", "e", "d", "i", "e", "n", "t", "s">> -> <<"k", "e", "y", "_", "i", "n", "g", "r", "e", "d", "i", "e", "n", "t", "s">>
      [] block = <<"s", "a", "f", "e", "t", "y">> -> <<"s", "i", "d", "e", "_", "e", "f", "f", "e", "c", "t", "s">>
      [] block = <<"s", "k", "i", "n", "_", "t", "y", "p", "e">> -> <<"s", "k", "i", "n", "_", "t", "y", "p", "e", "s">>
      [] OTHER -> <<"p", "r", "i", "c", "e">>

AttributeKeys == {AttributeOf(b) : b \in SingleSubjectBlocks}

AttributeValues ==
    { None, List(<<>>), Str(<<>>), Str(<<"a", "b">>), List(<<Str(<<"a">>)>>),
      List(<<Str(<<"a">>), Str(<<"b">>)>>), List(<<Str(<<"a">>), Str(<<"b">>), Str(<<"c">>)>>) }

(* a record with or without a name, and with at most one attribute: every *)
(* generator meets records that lack its attribute and records that hold  *)
(* it with each value                                                     *)
Subjects ==
    { nm \o at : nm \in {<<>>, <<Pair(<<"n", "a", "m", "e">>, Str(<<"X", "a">>))>>},
                 at \in {<<>>} \cup { <<Pair(key, v)>> : key \in AttributeKeys, v \in AttributeValues } }

SubjectCalls ==
    { [fn |-> "generate", block |-> b, pd |-> pd, done |-> FALSE, out |-> NoOut]
      : b \in SingleSubjectBlocks, pd \in Subjects }

Ingredients == {Str(<<"x">>), Str(<<"y">>), Str(<<"z">>)}
IngredientLists == UNION { [1..n -> Ingredients] : n \in 0..MaxIngredients }

(* subject A with or without a name and with or without the attribute *)
ComparisonSubjectsA ==
    { nm \o at : nm \in {<<>>, <<Pair(<<"n", "a", "m", "e">>, Str(<<"A">>))>>},
                 at \in {<<>>} \cup { <<Pair(<<"k", "e", "y", "_", "i", "n", "g", "r", "e", "d", "i", "e", "n", "t", "s">>, List(l))>> : l \in IngredientLists } }
ComparisonSubjectsB ==
    { <<Pair(<<"n", "a", "m", "e">>, Str(<<"B">>)), Pair(<<"k", "e", "y", "_", "i", "n", "g", "r", "e", "d", "i", "e", "n", "t", "s">>, List(l))>> : l \in IngredientLists }

CompareIngredientsCalls ==
    { [fn |-> "compare_ingredients", pa |-> pa, pb |-> pb, done |-> FALSE, out |-> NoOut]
      : pa \in ComparisonSubjectsA, pb \in ComparisonSubjectsB }

(* questions that match one rule of generate_answer, several, or none *)
Questions ==
    { <<"P", "r", "i", "c", "e", "?">>, <<"W", "h", "a", "t", " ", "i", "s", " ", "t", "h", "e", " ", "p", "r", "i", "c", "e", "?">>, <<"W", "h", "a", "t", " ", "i", "s", " ", "i", "t", "?">>, <<"W", "h", "a", "t", " ", "a", "r", "e", " ", "t", "h", "e", " ", "i", "n", "g", "r", "e", "d", "i", "e", "n", "t", "s", "?">>,
      <<"W", "h", "a", "t", " ", "a", "r", "e", " ", "t", "h", "e", " ", "b", "e", "n", "e", "f", "i", "t", "s", "?">>, <<"H", "o", "w", " ", "t", "o", " ", "u", "s", "e", " ", "i", "t", "?">>, <<"H", "o", "w", " ", "d", "o", " ", "I", " ", "a", "p", "p", "l", "y", " ", "i", "t", "?">>,
      <<"C", "a", "n", " ", "I", " ", "u", "s", "e", " ", "i", "t", " ", "d", "a", "i", "l", "y", "?">>, <<"I", "s", " ", "i", "t", " ", "s", "a", "f", "e", "?">>, <<"A", "n", "y", " ", "s", "i", "d", "e", " ", "e", "f", "f", "e", "c", "t", "?">>, <<"A", "n", "y", " ", "p", "r", "e", "c", "a", "u", "t", "i", "o", "n", "?">>,
      <<"W", "h", "i", "c", "h", " ", "s", "k", "i", "n", " ", "t", "y", "p", "e", "?">>, <<"I", "s", " ", "i", "t", " ", "s", "u", "i", "t", "a", "b", "l", "e", "?">>, <<"I", "s", " ", "t", "h", "e", " ", "p", "r", "i", "c", "e", " ", "s", "a", "f", "e", " ", "t", "o", " ", "a", "p", "p", "l", "y", "?">>,
      <<"H", "o", "w", " ", "t", "o", " ", "u", "s", "e", " ", "o", "n", " ", "s", "u", "i", "t", "a", "b", "l", "e", " ", "s", "k", "i", "n", "?">>, <<"W", "h", "o", " ", "m", "a", "k", "e", "s", " ", "i", "t", "?">> }

(* a record with every attribute, one with a name only, and an empty one *)
AnswerSubjects ==
    { <<Pair(<<"n", "a", "m", "e">>, Str(<<"X", "a">>)), Pair(<<"p", "r", "i", "c", "e">>, Str(<<"9">>)), Pair(<<"c", "a", "t", "e", "g", "o", "r", "y">>, Str(<<"s", "e", "r", "u", "m">>)),
        Pair(<<"k", "e", "y", "_", "i", "n", "g", "r", "e", "d", "i", "e", "n", "t", "s">>, List(<<Str(<<"x">>), Str(<<"y">>)>>)),
        Pair(<<"b", "e", "n", "e", "f", "i", "t", "s">>, List(<<Str(<<"b">>)>>)),
        Pair(<<"u", "s", "a", "g", "e", "_", "i", "n", "s", "t", "r", "u", "c", "t", "i", "o", "n", "s">>, Str(<<"R", "u", "b", " ", "i", "n", ".">>)),
        Pair(<<"s", "i", "d", "e", "_", "e", "f", "f", "e", "c", "t", "s">>, Str(<<"M", "a", "y", " ", "s", "t", "i", "n", "g", ".">>)),
        Pair(<<"s", "k", "i", "n", "_", "t", "y", "p", "e", "s">>, List(<<Str(<<"o", "i", "l", "y">>)>>))>>,
      <<Pair(<<"n", "a", "m", "e">>, Str(<<"X", "a">>))>>,
      <<>> }

AnswerCalls ==
    { [fn |-> "generate_answer", question |-> Str(q), pd |-> pd, done |-> FALSE, out |-> NoOut]
      : q \in Questions, pd \in AnswerSubjects }

(* two named records, the first with or without benefits *)
CompareBenefitsCalls ==
    { [fn |-> "compare_benefits", pa |-> <<Pair(<<"n", "a", "m", "e">>, Str(<<"A">>))>> \o at,
       pb |-> <<Pair(<<"n", "a", "m", "e">>, Str(<<"B">>)), Pair(<<"b", "e", "n", "e", "f", "i", "t", "s">>, List(lb))>>,
       done |-> FALSE, out |-> NoOut]
      : at \in {<<>>} \cup { <<Pair(<<"b", "e", "n", "e", "f", "i", "t", "s">>, List(la))>> : la \in IngredientLists },
        lb \in IngredientLists }

(* two named records, each without a price, with a null price, or priced *)
ComparePricesCalls ==
    { [fn |-> "compare_prices", pa |-> <<Pair(<<"n", "a", "m", "e">>, Str(<<"A">>))>> \o pra,
       pb |-> <<Pair(<<"n", "a", "m", "e">>, Str(<<"B">>))>> \o prb, done |-> FALSE, out |-> NoOut]
      : pra \in Attribute(<<"p", "r", "i", "c", "e">>, {None, Str(<<"9">>)}),
        prb \in Attribute(<<"p", "r", "i", "c", "e">>, {None, Str(<<"8">>)}) }

BlocksInit ==
    /\ EngineInit
    /\ heap = InitHeap
    /\ data = <<>>
    /\ hashSeed \in HashSeeds
    /\ call \in SubjectCalls \cup CompareIngredientsCalls \cup AnswerCalls
                \cup CompareBenefitsCalls \cup ComparePricesCalls
    /\ PipelineIdle

(* block_generators[block](pd), for a single-subject block *)
CallGenerate ==
    /\ call.fn = "generate" /\ ~call.done
    /\ call' = [call EXCEPT !.done = TRUE,
                            !.out = OutOf(CallSubjectGenerator(call.block, Dict(call.pd), heap))]
    /\ UNCHANGED <<templates, renderers, block_generators, heap, data, hashSeed, last, prev, regLog, pipelineVars>>

CallCompareIngredients ==
    /\ call.fn = "compare_ingredients" /\ ~call.done
    /\ call' = [call EXCEPT !.done = TRUE,
                            !.out = OutOf(compare_ingredients(call.pa, call.pb, hashSeed, heap))]
    /\ UNCHANGED <<templates, renderers, block_generators, heap, data, hashSeed, last, prev, regLog, pipelineVars>>

CallGenerateAnswer ==
    /\ call.fn = "generate_answer" /\ ~call.done
    /\ call' = [call EXCEPT !.done = TRUE,
                            !.out = OutOf(generate_answer(call.question, call.pd, heap))]
    /\ UNCHANGED <<templates, renderers, block_generators, heap, data, hashSeed, last, prev, regLog, pipelineVars>>

CallCompareBenefits ==
    /\ call.fn = "compare_benefits" /\ ~call.done
    /\ call' = [call EXCEPT !.done = TRUE,
                            !.out = OutOf(compare_benefits(call.pa, call.pb, hashSeed, heap))]
    /\ UNCHANGED <<templates, renderers, block_generators, heap, data, hashSeed, last, prev, regLog, pipelineVars>>

CallComparePrices ==
    /\ call.fn = "compare_prices" /\ ~call.done
    /\ call' = [call EXCEPT !.done = TRUE,
                            !.out = OutOf(compare_prices(call.pa, call.pb, heap))]
    /\ UNCHANGED <<templates, renderers, block_generators, heap, data, hashSeed, last, prev, regLog, pipelineVars>>

BlocksNext ==
    \/ CallGenerate
    \/ CallCompareIngredients
    \/ CallCompareBenefits
    \/ CallComparePrices
    \/ CallGenerateAnswer

SpecBlocks == BlocksInit /\ [][BlocksNext]_vars

----------------------------------------------------------------------------
(* Properties of the renderer, checked on the direct calls (SpecRender) *)

RenderDone == call.fn = "render" /\ call.done /\ ~call.out.raised

(* the field has no default, and its name has no value in the context d *)
NoValue(field, d) == field.default_value = None /\ DictGet(d, field.name, None) = None

(* C1, as stated: a field with no default and no value in the context is not *)
(* a key of the Document's content, whether it is required or optional.      *)
C1_FieldOmissionLaw ==
    RenderDone =>
        \A i \in 1..Len(call.template.fields) :
            NoValue(call.template.fields[i], call.data)
                => ~DictHas(call.out.value.content, call.template.fields[i].name)

(* C1, amended: such a field is not a key of the content when it is required, *)
(* and is a key holding the null value when it is optional.                   *)
C1_RequiredOmittedOptionalNull ==
    RenderDone =>
        \A i \in 1..Len(call.template.fields) :
            LET field == call.template.fields[i]
            IN NoValue(field, call.data)
                   => IF field.required
                      THEN ~DictHas(call.out.value.content, field.name)
                      ELSE DictGet(call.out.value.content, field.name, Absent) = None

C1_Witness ==
    /\ RenderDone
    /\ \E i, j \in 1..Len(call.template.fields) :
           /\ NoValue(call.template.fields[i], call.data)
           /\ NoValue(call.template.fields[j], call.data)
           /\ call.template.fields[i].required
           /\ ~call.template.fields[j].required

(* C4: coercing a field returns a value and never raises, for every field *)
(* type, combination of formatting options and raw value shape.           *)
C4_CoercionTotal ==
    (call.fn = "_process_field" /\ call.done) => ~call.out.raised

(* the text between the commas of s: the i-th of them, trimmed of spaces *)
CommaPositions(s) == {i \in 1..Len(s) : s[i] = ","}
NthComma(s, n) ==
    IF n = 0 THEN 0
    ELSE IF n > Cardinality(CommaPositions(s)) THEN Len(s) + 1
    ELSE CHOOSE i \in CommaPositions(s) : Cardinality({j \in CommaPositions(s) : j <= i}) = n
Trimmed(s) ==
    LET inked == {i \in 1..Len(s) : s[i] # " "}
    IN IF inked = {} THEN <<>>
       ELSE SubSeq(s, CHOOSE i \in inked : \A j \in inked : i <= j,
                      CHOOSE i \in inked : \A j \in inked : i >= j)
TrimmedItems(s) ==
    LET all == [n \in 1..(Cardinality(CommaPositions(s)) + 1) |->
                    Trimmed(SubSeq(s, NthComma(s, n - 1) + 1, NthComma(s, n) - 1))]
        kept == SelectSeq(all, LAMBDA item : item # <<>>)
    IN [i \in 1..Len(kept) |-> Str(kept[i])]

(* the items of seq that no earlier item equals, in order *)
FirstOccurrences(seq) ==
    LET firsts == {i \in 1..Len(seq) : \A j \in 1..(i - 1) : seq[j] # seq[i]}
        nth(n) == CHOOSE i \in firsts : Cardinality({j \in firsts : j <= i}) = n
    IN [n \in 1..Cardinality(firsts) |-> seq[nth(n)]]

Option(formatting, name) ==
    IF formatting = NoFormat THEN None ELSE DictGet(formatting.d, name, None)

(* C12: list coercion splits a raw text on commas, trims the items and drops *)
(* the empty ones; a raw value that is neither text nor a sequence becomes a *)
(* one-element sequence; max_items then keeps the first items and unique     *)
(* removes later duplicates, keeping first-seen order: "A, B, B, C" with     *)
(* unique gives [A, B, C].  The call raises only in the case of C4, unique   *)
(* over an unhashable item.                                                  *)
C12_ListCoercion ==
    (call.fn = "_process_field" /\ call.done /\ call.field.field_type = "list"
     /\ call.field.default_value = None) =>
        LET raw == call.data[1].val
            unique == Option(call.field.formatting, <<"u", "n", "i", "q", "u", "e">>) = Bool(TRUE)
            items == IF raw.k = "str" THEN TrimmedItems(raw.s)
                     ELSE IF raw.k = "list" THEN raw.items
                     ELSE <<raw>>
            cut == IF Option(call.field.formatting, <<"m", "a", "x", "_", "i", "t", "e", "m", "s">>) = None THEN items
                   ELSE SubSeq(items, 1, Min(Len(items),
                                             Option(call.field.formatting, <<"m", "a", "x", "_", "i", "t", "e", "m", "s">>).n))
        IN IF call.out.raised
           THEN unique /\ \E i \in 1..Len(cut) : cut[i].k \in {"ref", "dict", "list", "block"}
           ELSE call.out.value = List(IF unique THEN FirstOccurrences(cut) ELSE cut)

C12_Witness ==
    /\ call.fn = "_process_field" /\ call.done /\ call.field.field_type = "list"
    /\ call.data # <<>>
    /\ call.data[1].val = Str(<<"A", ",", " ", "B", ",", " ", "B", ",", " ", "C">>)
    /\ call.field.formatting = Format(<<Pair(<<"u", "n", "i", "q", "u", "e">>, Bool(TRUE))>>)
    /\ call.out.value = List(<<Str(<<"A">>), Str(<<"B">>), Str(<<"C">>)>>)

----------------------------------------------------------------------------
(* Properties of the engine (Spec) *)

Registered(name) == \E i \in 1..Len(regLog) : regLog[i].name = name

(* the definition most recently handed to register_template under name *)
LatestOf(name) ==
    regLog[CHOOSE i \in 1..Len(regLog) :
               /\ regLog[i].name = name
               /\ \A j \in (i + 1)..Len(regLog) : regLog[j].name # name]

(* the names handed to register_template, each once, in order of first use *)
RECURSIVE FirstSeen(_)
FirstSeen(defs) ==
    IF Len(defs) = 0 THEN <<>>
    ELSE LET before == FirstSeen(SubSeq(defs, 1, Len(defs) - 1))
             name == defs[Len(defs)].name
         IN IF \E i \in 1..Len(before) : before[i] = name THEN before
            ELSE Append(before, name)

(* the dependencies of the rendered template that are neither a key of the *)
(* context nor a registered block generator                                *)
Unsatisfied ==
    SelectSeq(LatestOf(last.name).dependencies,
              LAMBDA dep : ~DictHas(data, dep) /\ dep \notin block_generators)

Generated(log) == \E i \in 1..Len(log) : log[i].ev = "generate"
Coerced(log) == \E i \in 1..Len(log) : log[i].ev = "coerce"

(* C2: a render call on a template with an unsatisfied dependency raises the *)
(* missing-dependencies error listing every missing name, before any block   *)
(* generator is invoked or any field coerced, and returns no Document.       *)
C2_UnsatisfiedDependencyFirst ==
    (last.op = "render" /\ Registered(last.name) /\ Unsatisfied # <<>>) =>
        /\ last.raised
        /\ last.exc = "MissingDependencies"
        /\ last.missing = Unsatisfied
        /\ ~Generated(last.log) /\ ~Coerced(last.log)
        /\ last.value = None

C2_Witness ==
    /\ last.op = "render" /\ last.exc = "MissingDependencies"
    /\ Len(last.missing) = 2
    /\ DictHas(data, <<"p", "r", "o", "d", "u", "c", "t", "_", "d", "a", "t", "a">>)

(* C3, as stated: the checks run in the order template lookup, format lookup, *)
(* dependency check: a format with no renderer yields RendererNotFound also   *)
(* when a dependency is unsatisfiable, and no generator was invoked.          *)
C3_FatalCheckOrder ==
    last.op = "render" =>
        /\ ~Registered(last.name) => (last.raised /\ last.exc = "TemplateNotFound")
        /\ (Registered(last.name) /\ last.fmt \notin renderers) =>
               /\ last.raised /\ last.exc = "RendererNotFound"
               /\ ~Generated(last.log)

(* C3, amended: the order is template lookup, dependency check, dependency  *)
(* resolution, format lookup.  An unknown template yields TemplateNotFound; *)
(* an unsatisfiable dependency yields the missing-dependencies error for    *)
(* every format; otherwise a format with no renderer yields                 *)
(* RendererNotFound after the generators ran and before any field is       *)
(* coerced.                                                                 *)
C3_FormatLookupLast ==
    last.op = "render" =>
        /\ ~Registered(last.name) =>
               (last.raised /\ last.exc = "TemplateNotFound" /\ last.log = <<>>)
        /\ (Registered(last.name) /\ Unsatisfied # <<>>) =>
               (last.raised /\ last.exc = "MissingDependencies" /\ last.log = <<>>)
        /\ (Registered(last.name) /\ Unsatisfied = <<>> /\ last.fmt \notin renderers) =>
               /\ last.raised /\ last.exc = "RendererNotFound"
               /\ ~Coerced(last.log)
               /\ \A i \in 1..Len(LatestOf(last.name).dependencies) :
                      LET dep == LatestOf(last.name).dependencies[i]
                      IN (dep \in SingleSubjectBlocks /\ ~DictHas(data, dep)
                          /\ DictHas(data, <<"p", "r", "o", "d", "u", "c", "t", "_", "d", "a", "t", "a">>))
                             => \E j \in 1..Len(last.log) :
                                    last.log[j] = [ev |-> "generate", name |-> dep]

C3_Witness ==
    /\ last.op = "render" /\ last.exc = "RendererNotFound"
    /\ Generated(last.log)

(* C5: two render_template calls in a row with the same template name, the *)
(* same context and the same format return equal Documents.                *)
C5_RenderIdempotent ==
    (last.op = "render" /\ prev.op = "render" /\ ~last.raised /\ ~prev.raised)
        => last.value = prev.value

(* the caller's dict objects the context d holds *)
ContextObjects(d) == {d[i].val.a : i \in {j \in 1..Len(d) : d[j].val.k = "ref"}}

(* C6: a render call leaves the caller's context as it was: the same keys, *)
(* and every value in it, the raw mappings included, unmodified.           *)
C6_ContextUnchanged ==
    [][last'.op = "render" =>
           /\ data' = data
           /\ \A a \in ContextObjects(data) : heap'[a] = heap[a]]_vars

(* C7: get_template returns the definition most recently registered under   *)
(* the name, and list_templates returns every registered name once, in the   *)
(* order the names were first registered.                                    *)
C7_LastWriteWins ==
    /\ (last.op = "get" /\ Registered(last.name))
           => (~last.raised /\ last.value = LatestOf(last.name))
    /\ last.op = "list" => last.value = List(FirstSeen(regLog))

C7_Witness ==
    /\ last.op = "get" /\ Len(regLog) = 3
    /\ regLog[1].name = last.name /\ regLog[3].name = last.name
    /\ regLog[2].name # last.name
    /\ regLog[1] # regLog[3]

(* C8, as stated: get_template with a name that was never registered signals *)
(* an error; it does not return an ordinary value.                           *)
C8_GetUnknownSignalsNotFound ==
    (last.op = "get" /\ ~Registered(last.name)) => last.raised

(* C8, amended: get_template with a name that was never registered returns   *)
(* the null value and signals nothing; with a registered name it returns the *)
(* definition registered under it.                                           *)
C8_GetUnknownReturnsNone ==
    last.op = "get" =>
        /\ ~last.raised
        /\ IF Registered(last.name) THEN last.value = DictGet(templates, last.name, None)
                                          /\ last.value.name = last.name
           ELSE last.value = None

C8_Witness ==
    /\ last.op = "get" /\ ~Registered(last.name)
    /\ Len(regLog) > 0
    /\ last.value = None

----------------------------------------------------------------------------
(* Properties of the block generators, checked on the direct calls (SpecBlocks) *)

(* C9: a single-subject generator whose attribute is missing from the record *)
(* (no key, or an empty or null value) returns a Block whose text states     *)
(* that the information is not provided or not specified, and does not raise. *)
C9_MissingAttributePlaceholder ==
    (call.fn = "generate" /\ call.done
     /\ ~Truthy(DictGet(call.pd, AttributeOf(call.block), None), heap)) =>
        /\ ~call.out.raised
        /\ call.out.value.k = "block"
        /\ call.out.value.content.k = "str"
        /\ \/ Contains(call.out.value.content.s, <<"n", "o", "t", " ", "p", "r", "o", "v", "i", "d", "e", "d">>)
           \/ Contains(call.out.value.content.s, <<"n", "o", "t", " ", "s", "p", "e", "c", "i", "f", "i", "e", "d">>)

(* the set of key_ingredients of a subject record *)
IngredientSet(pd) ==
    LET l == DictGet(pd, <<"k", "e", "y", "_", "i", "n", "g", "r", "e", "d", "i", "e", "n", "t", "s">>, List(<<>>)).items
    IN {l[i] : i \in 1..Len(l)}

(* C10: the facts of the comparison_ingredients Block are the sizes of the *)
(* intersection and of the two differences of the subjects' ingredient    *)
(* sets, and they add up to the size of the union.                        *)
C10_IngredientFacts ==
    (call.fn = "compare_ingredients" /\ call.done /\ ~call.out.raised) =>
        LET A == IngredientSet(call.pa)
            B == IngredientSet(call.pb)
            facts == call.out.value.metadata.d
            common == DictGet(facts, <<"c", "o", "m", "m", "o", "n", "_", "i", "n", "g", "r", "e", "d", "i", "e", "n", "t", "s">>, None)
            unique_a == DictGet(facts, <<"u", "n", "i", "q", "u", "e", "_", "a">>, None)
            unique_b == DictGet(facts, <<"u", "n", "i", "q", "u", "e", "_", "b">>, None)
        IN /\ common = Num(Cardinality(A \cap B))
           /\ unique_a = Num(Cardinality(A \ B))
           /\ unique_b = Num(Cardinality(B \ A))
           /\ common.n + unique_a.n + unique_b.n = Cardinality(A \cup B)

C10_Witness ==
    /\ call.fn = "compare_ingredients" /\ call.done /\ ~call.out.raised
    /\ Len(DictGet(call.pa, <<"k", "e", "y", "_", "i", "n", "g", "r", "e", "d", "i", "e", "n", "t", "s">>, List(<<>>)).items)
           > Cardinality(IngredientSet(call.pa))
    /\ IngredientSet(call.pa) \cap IngredientSet(call.pb) # {}
    /\ IngredientSet(call.pb) \ IngredientSet(call.pa) # {}


(* the orders in which the elements of the set S can be listed *)
Orders(S) ==
    {f \in [1..Cardinality(S) -> S] : \A x \in S : \E i \in 1..Cardinality(S) : f[i] = x}

(* one part of the comparison text: the lead, then the ingredients listed *)
ListedPart(lead, order) ==
    IF Len(order) = 0 THEN <<>>
    ELSE <<lead \o Join(<<",", " ">>, [i \in 1..Len(order) |-> order[i].s])>>

SubjectName(pd) == DictGet(pd, <<"n", "a", "m", "e">>, Str(<<>>)).s

(* C11: in the text of the comparison_ingredients Block every ingredient is *)
(* listed in exactly one part: a shared one in the 'Both products contain' *)
(* part, one only A has in A's 'uniquely features' part, one only B has in *)
(* B's part; for A = {x, y} and B = {y, z} the facts are 1, 1 and 1.       *)
C11_EachIngredientInOnePart ==
    (call.fn = "compare_ingredients" /\ call.done /\ ~call.out.raised) =>
        LET A == IngredientSet(call.pa)
            B == IngredientSet(call.pb)
            facts == call.out.value.metadata.d
        IN /\ \E c \in Orders(A \cap B), a \in Orders(A \ B), b \in Orders(B \ A) :
                  LET parts ==
                          ListedPart(<<"B", "o", "t", "h", " ", "p", "r", "o", "d", "u", "c", "t", "s", " ", "c", "o", "n", "t", "a", "i", "n", " ">>, c)
                          \o ListedPart(SubjectName(call.pa) \o <<" ", "u", "n", "i", "q", "u", "e", "l", "y", " ", "f", "e", "a", "t", "u", "r", "e", "s", " ">>, a)
                          \o ListedPart(SubjectName(call.pb) \o <<" ", "u", "n", "i", "q", "u", "e", "l", "y", " ", "f", "e", "a", "t", "u", "r", "e", "s", " ">>, b)
                  IN call.out.value.content.s =
                         IF Len(parts) = 0
                         THEN <<"B", "o", "t", "h", " ", "p", "r", "o", "d", "u", "c", "t", "s", " ", "h", "a", "v", "e", " ", "d", "i", "s", "t", "i", "n", "c", "t", " ", "i", "n", "g", "r", "e", "d", "i", "e", "n", "t", " ", "f", "o", "r", "m", "u", "l", "a", "t", "i", "o", "n", "s", ".">>
                         ELSE Join(<<".", " ">>, parts) \o <<".">>
           /\ (A = {Str(<<"x">>), Str(<<"y">>)} /\ B = {Str(<<"y">>), Str(<<"z">>)}) =>
                  facts = <<Pair(<<"c", "o", "m", "m", "o", "n", "_", "i", "n", "g", "r", "e", "d", "i", "e", "n", "t", "s">>, Num(1)), Pair(<<"u", "n", "i", "q", "u", "e", "_", "a">>, Num(1)),
                            Pair(<<"u", "n", "i", "q", "u", "e", "_", "b">>, Num(1))>>

C11_Witness ==
    /\ call.fn = "compare_ingredients" /\ call.done /\ ~call.out.raised
    /\ IngredientSet(call.pa) = {Str(<<"x">>), Str(<<"y">>)}
    /\ IngredientSet(call.pb) = {Str(<<"y">>), Str(<<"z">>)}
    /\ hashSeed = 1
    /\ Contains(call.out.value.content.s, <<"A", " ", "u", "n", "i", "q", "u", "e", "l", "y", " ", "f", "e", "a", "t", "u", "r", "e", "s", " ", "x", ".", " ", "B", " ", "u", "n", "i", "q", "u", "e", "l", "y", " ", "f", "e", "a", "t", "u", "r", "e", "s", " ", "z", ".">>)


----------------------------------------------------------------------------
(* The product page *)

(* the subject of the end-to-end scenario *)
ScenarioSubject ==
    <<Pair(<<"n", "a", "m", "e">>, Str(<<"X", " ", "S", "e", "r", "u", "m">>)), Pair(<<"b", "e", "n", "e", "f", "i", "t", "s">>, List(<<Str(<<"B", "r", "i", "g", "h", "t", "e", "n", "i", "n", "g">>)>>)),
      Pair(<<"k", "e", "y", "_", "i", "n", "g", "r", "e", "d", "i", "e", "n", "t", "s">>, List(<<Str(<<"V", "i", "t", "a", "m", "i", "n", " ", "C">>)>>)), Pair(<<"p", "r", "i", "c", "e">>, Str(<<"₹", "6", "9", "9">>))>>

(* the text names the word, in whatever letter case *)
Mentions(text, word) == text.k = "str" /\ Contains(StrLower(text.s), StrLower(word))

(* the page generated for the scenario's subject *)
ScenarioPage == call.fn = "generate_product_page" /\ call.done /\ call.pd = ScenarioSubject

(* C13: generating the product page for the subject {name "X Serum", benefits *)
(* ["Brightening"], key_ingredients ["Vitamin C"], price "₹699"} returns a    *)
(* Document whose key_features list has an entry mentioning "Brightening"     *)
(* (the feature prints the benefit in lower case) and an entry mentioning     *)
(* "Vitamin C", and whose price block has a text containing "₹699".           *)
C13_ProductPageScenario ==
    ScenarioPage =>
        /\ ~call.out.raised
        /\ LET content == call.out.value.content
               key_features == DictGet(content, <<"k", "e", "y", "_", "f", "e", "a", "t", "u", "r", "e", "s">>, None)
               price == DictGet(content, <<"p", "r", "i", "c", "e">>, None)
           IN /\ key_features.k = "list"
              /\ \E i \in 1..Len(key_features.items) : Mentions(key_features.items[i], <<"B", "r", "i", "g", "h", "t", "e", "n", "i", "n", "g">>)
              /\ \E i \in 1..Len(key_features.items) : Mentions(key_features.items[i], <<"V", "i", "t", "a", "m", "i", "n", " ", "C">>)
              /\ price.k = "dict"
              /\ DictGet(price.d, <<"t", "y", "p", "e">>, None) = Str(<<"p", "r", "i", "c", "e">>)
              /\ Contains(DictGet(price.d, <<"c", "o", "n", "t", "e", "n", "t">>, None).s, <<"₹", "6", "9", "9">>)

C13_Witness ==
    /\ ScenarioPage
    /\ ~call.out.raised
    /\ DictGet(call.out.value.content, <<"k", "e", "y", "_", "f", "e", "a", "t", "u", "r", "e", "s">>, None)
         = List(<<Str(<<"S", "u", "p", "p", "o", "r", "t", "s", " ", "b", "r", "i", "g", "h", "t", "e", "n", "i", "n", "g">>), Str(<<"C", "o", "n", "t", "a", "i", "n", "s", " ", "V", "i", "t", "a", "m", "i", "n", " ", "C">>)>>)
    /\ DictGet(DictGet(call.out.value.content, <<"p", "r", "i", "c", "e">>, None).d, <<"c", "o", "n", "t", "e", "n", "t">>, None)
         = Str(<<"X", " ", "S", "e", "r", "u", "m", " ", "i", "s", " ", "p", "r", "i", "c", "e", "d", " ", "a", "t", " ", "₹", "6", "9", "9", ".">>)

----------------------------------------------------------------------------
(* The pipeline *)

(* run_pipeline aborted: an agent's failure left it as a RuntimeError *)
Aborted == pc = "raised"

(* C14: whenever run_pipeline aborts, whichever stage failed and however far *)
(* the write stage got, the output directory holds no page or graph file     *)
(* written by that run.                                                      *)
C14_NoFilesOnAbort == Aborted => files = {}

(* the result is COMPLETED and carries data *)
CompletedWithData(result) == result.status = COMPLETED /\ result.data # None

(* every agent run so far completed with data *)
AllCompleted == \A i \in 1..Len(results) : CompletedWithData(results[i])

(* C15: the agents run in the order parse, question generation, competitor  *)
(* generation, page generation, JSON writing; an agent runs only after every *)
(* earlier one returned a COMPLETED result with data; the first agent that   *)
(* fails aborts run_pipeline with an error naming that agent and its error   *)
(* list, so that no later agent runs and no artifacts are returned; and the  *)
(* process exits with 0 exactly when all five agents completed, with a       *)
(* nonzero status otherwise.                                                 *)
C15_StagesInOrderFailFast ==
    /\ Len(results) <= Len(Steps)
    /\ \A i \in 1..Len(results) : results[i].agent_name = Steps[i]
    /\ \A i \in 1..(Len(results) - 1) : CompletedWithData(results[i])
    /\ pc \in AgentNames => AllCompleted /\ pc = Steps[Len(results) + 1]
    /\ ~AllCompleted =>
          /\ pc = "raised"
          /\ error.raised
          /\ error.agent_name = results[Len(results)].agent_name
          /\ error.errors = results[Len(results)].errors
          /\ error.errors # <<>>
    /\ pc = "returned" => AllCompleted /\ Len(results) = Len(Steps)
    /\ exit_code # None =>
          (exit_code = Num(0)) = (AllCompleted /\ Len(results) = Len(Steps))
    /\ exit_code \in {None, Num(0), Num(1)}

C15_Witness ==
    /\ exit_code = Num(1)
    /\ Len(results) = 4
    /\ error = RuntimeError("ContentGeneratorAgent", <<"Content generation failed: ...">>)
    /\ files = {}

----------------------------------------------------------------------------
(* Dependency resolution *)

(* a render_template call that returned a Document *)
RenderReturned == call.fn = "render_template" /\ call.done /\ ~call.out.raised

(* a call in which _generate_content_blocks ran: a direct call, or a *)
(* render_template call that got past its dependency check          *)
ResolutionRan ==
    /\ call.fn \in {"_generate_content_blocks", "render_template"}
    /\ call.done
    /\ call.fn = "render_template" =>
          ~(call.out.raised /\ call.out.exc \in {"TemplateNotFound", "MissingDependencies"})

Declared == {call.template.dependencies[i] : i \in 1..Len(call.template.dependencies)}
Supplied(dep) == DictHas(call.data, dep)
EnrichedHas(dep) == DictHas(call.resolved.enriched, dep)
CallsOf(dep) == SelectSeq(call.resolved.calls, LAMBDA c : c.name = dep)
WasCalled(dep) == Len(CallsOf(dep)) > 0
Produced(dep) == Len(CallsOf(dep)) = 1 /\ ~CallsOf(dep)[1].raised
Warned(dep) ==
    \E i \in 1..Len(call.resolved.log) : call.resolved.log[i] = [ev |-> "warning", name |-> dep]

(* every generator was invoked before the first field was coerced *)
GeneratedBeforeCoerced(log) ==
    \A i, j \in 1..Len(log) : (log[i].ev = "generate" /\ log[j].ev = "coerce") => i < j

(* C16 as stated: in every render call that returns a Document, every      *)
(* declared dependency is present in the enriched context before the first *)
(* field is coerced.                                                       *)
C16_EveryDependencyPresent ==
    RenderReturned =>
        /\ GeneratedBeforeCoerced(call.out.log)
        /\ \A dep \in Declared : EnrichedHas(dep)

(* C16, amended: in every render call that returns a Document, dependency  *)
(* resolution has run before the first field is coerced, and the enriched  *)
(* context holds exactly the declared dependencies that the caller's       *)
(* context already held or whose generator was called and returned a       *)
(* Block; a dependency whose generator was not called or raised is absent. *)
C16_ResolvedDependenciesPresent ==
    RenderReturned =>
        /\ GeneratedBeforeCoerced(call.out.log)
        /\ \A dep \in Declared : EnrichedHas(dep) = (Supplied(dep) \/ Produced(dep))

C16_Witness ==
    /\ RenderReturned
    /\ call.template.dependencies = <<<<"b", "e", "n", "e", "f", "i", "t", "s">>, <<"c", "o", "m", "p", "a", "r", "i", "s", "o", "n", "_", "i", "n", "g", "r", "e", "d", "i", "e", "n", "t", "s">>>>
    /\ ~EnrichedHas(<<"b", "e", "n", "e", "f", "i", "t", "s">>)
    /\ WasCalled(<<"b", "e", "n", "e", "f", "i", "t", "s">>)
    /\ EnrichedHas(<<"c", "o", "m", "p", "a", "r", "i", "s", "o", "n", "_", "i", "n", "g", "r", "e", "d", "i", "e", "n", "t", "s">>)
    /\ Coerced(call.out.log)

(* a declared dependency that is not in the context and has no generator *)
Unbacked(dep) == dep \in Declared /\ ~Supplied(dep) /\ dep \notin block_generators

(* C17 as stated: a declared dependency that is not in the context and has *)
(* no generator is skipped silently and stays unresolved, and the render   *)
(* call proceeds to return a Document.                                     *)
C17_MissingGeneratorNeverAborts ==
    \A dep \in DependencyNames :
        (call.fn = "render_template" /\ call.done /\ call.fmt \in renderers /\ Unbacked(dep)) =>
            ~call.out.raised /\ ~EnrichedHas(dep) /\ ~WasCalled(dep) /\ ~Warned(dep)

(* C17, amended: dependency resolution itself skips such a dependency       *)
(* silently and leaves it unresolved, but render_template does not proceed: *)
(* its dependency check raises the missing-dependencies error, which names  *)
(* the dependency, before resolution runs, and no Document is returned.     *)
C17_MissingGeneratorAbortsRender ==
    \A dep \in DependencyNames :
        (call.done /\ Unbacked(dep)) =>
            /\ ~EnrichedHas(dep) /\ ~WasCalled(dep) /\ ~Warned(dep)
            /\ call.fn = "render_template" =>
                  /\ call.out.raised
                  /\ call.out.exc = "MissingDependencies"
                  /\ \E i \in 1..Len(call.out.missing) : call.out.missing[i] = dep
                  /\ call.out.value = None
                  /\ call.resolved = Unresolved

C17_Witness ==
    /\ call.fn = "render_template" /\ call.done /\ call.fmt = "json"
    /\ call.template.dependencies = <<<<"p", "r", "i", "c", "e">>, <<"n", "o", "n", "e", "x", "i", "s", "t", "e", "n", "t", "_", "b", "l", "o", "c", "k">>>>
    /\ DictHas(call.data, <<"p", "r", "o", "d", "u", "c", "t", "_", "d", "a", "t", "a">>)
    /\ call.out.exc = "MissingDependencies"
    /\ call.out.missing = <<<<"n", "o", "n", "e", "x", "i", "s", "t", "e", "n", "t", "_", "b", "l", "o", "c", "k">>>>

(* the subject record the comparison generators are given for one side *)
SubjectOf(d, full, plain) ==
    IF DictHas(d, full) /\ Truthy(DictGet(d, full, None), heap)
    THEN DictGet(d, full, None) ELSE DictGet(d, plain, None)
SubjectA == SubjectOf(call.data, <<"p", "r", "o", "d", "u", "c", "t", "_", "a", "_", "f", "u", "l", "l">>, <<"p", "r", "o", "d", "u", "c", "t", "_", "a">>)
SubjectB == SubjectOf(call.data, <<"p", "r", "o", "d", "u", "c", "t", "_", "b", "_", "f", "u", "l", "l">>, <<"p", "r", "o", "d", "u", "c", "t", "_", "b">>)

(* the arguments the naming convention gives the generator of dep, when the *)
(* context holds what it needs                                              *)
IsComparison(dep) == StartsWith(dep, <<"c", "o", "m", "p", "a", "r", "i", "s", "o", "n">>)
IsAnswer(dep) == ~IsComparison(dep) /\ EndsWith(dep, <<"_", "a", "n", "s", "w", "e", "r">>)
InputsPresent(dep) ==
    IF IsComparison(dep) THEN IsDict(SubjectA) /\ IsDict(SubjectB)
    ELSE IF IsAnswer(dep)
    THEN DictHas(call.data, <<"q", "u", "e", "s", "t", "i", "o", "n">>) /\ DictHas(call.data, <<"p", "r", "o", "d", "u", "c", "t", "_", "d", "a", "t", "a">>)
    ELSE DictHas(call.data, <<"p", "r", "o", "d", "u", "c", "t", "_", "d", "a", "t", "a">>)
ExpectedArgs(dep) ==
    IF IsComparison(dep) THEN <<SubjectA, SubjectB>>
    ELSE IF IsAnswer(dep)
    THEN <<DictGet(call.data, <<"q", "u", "e", "s", "t", "i", "o", "n">>, None), DictGet(call.data, <<"p", "r", "o", "d", "u", "c", "t", "_", "d", "a", "t", "a">>, None)>>
    ELSE <<DictGet(call.data, <<"p", "r", "o", "d", "u", "c", "t", "_", "d", "a", "t", "a">>, None)>>

(* a declared dependency that resolution has to produce *)
ToResolve(dep) == dep \in Declared /\ ~Supplied(dep) /\ dep \in block_generators

(* C18: an exception raised by a block generator never leaves resolution or *)
(* render_template: the dependency is left unresolved with a warning, every *)
(* later declared dependency is still attempted, and the render call, given *)
(* a format that has a renderer, still returns a Document.                  *)
C18_GeneratorExceptionContained ==
    ResolutionRan =>
        \A i \in 1..Len(call.template.dependencies) :
            LET dep == call.template.dependencies[i]
            IN (WasCalled(dep) /\ CallsOf(dep)[1].raised) =>
                  /\ Warned(dep)
                  /\ ~EnrichedHas(dep)
                  /\ \A j \in (i + 1)..Len(call.template.dependencies) :
                        LET later == call.template.dependencies[j]
                        IN (ToResolve(later) /\ InputsPresent(later)) => WasCalled(later)
                  /\ (call.fn = "render_template" /\ call.fmt \in renderers) =>
                        ~call.out.raised /\ call.out.value.template_name = "page"

C18_Witness ==
    /\ RenderReturned
    /\ call.template.dependencies = <<<<"b", "e", "n", "e", "f", "i", "t", "s">>, <<"p", "r", "i", "c", "e">>>>
    /\ WasCalled(<<"b", "e", "n", "e", "f", "i", "t", "s">>)
    /\ CallsOf(<<"b", "e", "n", "e", "f", "i", "t", "s">>)[1].raised
    /\ Warned(<<"b", "e", "n", "e", "f", "i", "t", "s">>)
    /\ Produced(<<"p", "r", "i", "c", "e">>)
    /\ EnrichedHas(<<"p", "r", "i", "c", "e">>)

C20_CallerDataKept ==
    ResolutionRan =>
        /\ \A i \in 1..Len(call.data) :
              DictGet(call.resolved.enriched, call.data[i].key, Absent) = call.data[i].val
        /\ \A dep \in Declared : Supplied(dep) => ~WasCalled(dep)
        /\ \A i \in 1..Len(call.resolved.enriched) :
              LET key == call.resolved.enriched[i].key
              IN ~Supplied(key) =>
                    /\ key \in Declared
                    /\ Produced(key)
                    /\ call.resolved.enriched[i].val = CallsOf(key)[1].value
                    /\ call.resolved.enriched[i].val.k = "block"
        /\ \A dep \in Declared : Produced(dep) => EnrichedHas(dep)

C20_Witness ==
    /\ ResolutionRan
    /\ call.template.dependencies = <<<<"p", "r", "i", "c", "e">>, <<"c", "o", "m", "p", "a", "r", "i", "s", "o", "n", "_", "i", "n", "g", "r", "e", "d", "i", "e", "n", "t", "s">>>>
    /\ DictGet(call.data, <<"p", "r", "i", "c", "e">>, None) = Str(<<"f", "r", "e", "e">>)
    /\ DictGet(call.resolved.enriched, <<"p", "r", "i", "c", "e">>, None) = Str(<<"f", "r", "e", "e">>)
    /\ DictHas(call.data, <<"p", "r", "o", "d", "u", "c", "t", "_", "d", "a", "t", "a">>)
    /\ ~WasCalled(<<"p", "r", "i", "c", "e">>)
    /\ DictGet(call.resolved.enriched, <<"c", "o", "m", "p", "a", "r", "i", "s", "o", "n", "_", "i", "n", "g", "r", "e", "d", "i", "e", "n", "t", "s">>, None).k = "block"

(* a mapping as Python compares it: its keys and their values, whatever the *)
(* insertion order                                                          *)
AsMapping(d) == {<<d[i].key, d[i].val>> : i \in 1..Len(d)}

(* the dependency lists that declare the same dependencies as deps *)
PermutationsOf(deps) ==
    { p \in DependencyLists :
        Len(p) = Len(deps) /\ {p[i] : i \in 1..Len(p)} = {deps[i] : i \in 1..Len(deps)} }

(* what resolution returns for the same context and a template declaring deps *)
ResolvedFor(deps) ==
    _generate_content_blocks(ResolveTemplate(deps), call.data, block_generators, hashSeed, heap)

(* the position of dep in the template's dependency list *)
DeclaredAt(dep) ==
    CHOOSE i \in 1..Len(call.template.dependencies) : call.template.dependencies[i] = dep

(* C21: declared dependencies are mutually independent: the generators are *)
(* called in declaration order, what resolution leaves under a dependency  *)
(* is what it leaves when the template declares that dependency alone, and *)
(* the enriched context is the same mapping for every permutation of the   *)
(* template's dependency list.                                             *)
C21_DependenciesIndependent ==
    ResolutionRan =>
        /\ \A i, j \in 1..Len(call.resolved.calls) :
              i < j => DeclaredAt(call.resolved.calls[i].name)
                       < DeclaredAt(call.resolved.calls[j].name)
        /\ \A dep \in Declared :
              DictGet(call.resolved.enriched, dep, Absent)
              = DictGet(ResolvedFor(<<dep>>).enriched, dep, Absent)
        /\ \A p \in PermutationsOf(call.template.dependencies) :
              AsMapping(ResolvedFor(p).enriched) = AsMapping(call.resolved.enriched)

C21_Witness ==
    /\ ResolutionRan
    /\ call.template.dependencies = <<<<"b", "e", "n", "e", "f", "i", "t", "s">>, <<"c", "o", "m", "p", "a", "r", "i", "s", "o", "n", "_", "i", "n", "g", "r", "e", "d", "i", "e", "n", "t", "s">>, <<"p", "r", "i", "c", "e">>>>
       \/ call.template.dependencies = <<<<"b", "e", "n", "e", "f", "i", "t", "s">>, <<"p", "r", "i", "c", "e">>>>
    /\ WasCalled(<<"b", "e", "n", "e", "f", "i", "t", "s">>)
    /\ CallsOf(<<"b", "e", "n", "e", "f", "i", "t", "s">>)[1].raised
    /\ Produced(<<"p", "r", "i", "c", "e">>)
    /\ call.resolved.calls[1].name = <<"b", "e", "n", "e", "f", "i", "t", "s">>

----------------------------------------------------------------------------
(* The returned Document *)

(* a render_template call that returned, and the definition it rendered *)
Returned == last.op = "render" /\ ~last.raised
RenderedTemplate == LatestOf(last.name)
FieldNamesOf(t) == [i \in 1..Len(t.fields) |-> t.fields[i].name]

(* C22: the returned Document has the template's name and metadata (the    *)
(* empty mapping for a template declared without metadata), the keys of    *)
(* its content are declared field names, in field declaration order, and   *)
(* no context key that is not a declared field appears in content.         *)
C22_DocumentShape ==
    Returned =>
        /\ last.value.template_name = RenderedTemplate.name
        /\ last.value.template_name = last.name
        /\ RenderedTemplate.metadata # None =>
              last.value.metadata = RenderedTemplate.metadata
        /\ RenderedTemplate.metadata = None => last.value.metadata = Dict(<<>>)
        /\ DictKeys(last.value.content)
           = SelectSeq(FieldNamesOf(RenderedTemplate),
                       LAMBDA name : DictHas(last.value.content, name))
        /\ \A i \in 1..Len(data) :
              (\A j \in 1..Len(RenderedTemplate.fields) :
                  RenderedTemplate.fields[j].name # data[i].key)
              => ~DictHas(last.value.content, data[i].key)

C22_Witness ==
    /\ Returned
    /\ last.name = "page"
    /\ last.value.metadata = Dict(<<Pair(<<"n", "o", "t", "e">>, Num(1))>>)
    /\ DictHas(data, <<"p", "r", "o", "d", "u", "c", "t", "_", "d", "a", "t", "a">>) /\ DictHas(data, <<"q", "u", "e", "s", "t", "i", "o", "n">>)
    /\ DictKeys(last.value.content) = <<<<"p", "r", "i", "c", "e">>, <<"c", "o", "m", "p", "a", "r", "i", "s", "o", "n", "_", "i", "n", "g", "r", "e", "d", "i", "e", "n", "t", "s">>, <<"q", "a", "_", "a", "n", "s", "w", "e", "r">>, <<"o">>>>

----------------------------------------------------------------------------
(* Field coercion *)

(* a direct call of _process_field that is done, on a field of type ty that *)
(* has no default                                                          *)
Coerces(ty) ==
    /\ call.fn = "_process_field" /\ call.done
    /\ call.field.field_type = ty /\ call.field.default_value = None
RawValue == DictGet(call.data, call.field.name, None)
OptionOf(option) == Option(call.field.formatting, option)
Enabled(option) == Truthy(OptionOf(option), heap)
KeysOf(v) == {Pairs(v, heap)[i].key : i \in 1..Len(Pairs(v, heap))}

(* C23: block coercion of a Block or of a raw mapping returns the content *)
(* string alone with content_only=true; otherwise a mapping with exactly  *)
(* the keys type and content with include_metadata=false, and exactly the *)
(* keys type, content and metadata without it.                            *)
C23_BlockNormalized ==
    (Coerces("block") /\ (RawValue.k = "block" \/ IsDict(RawValue))) =>
        /\ ~call.out.raised
        /\ IF Enabled(<<"c", "o", "n", "t", "e", "n", "t", "_", "o", "n", "l", "y">>)
           THEN call.out.value.k = "str"
           ELSE /\ IsDict(call.out.value)
                /\ KeysOf(call.out.value)
                   = IF OptionOf(<<"i", "n", "c", "l", "u", "d", "e", "_", "m", "e", "t", "a", "d", "a", "t", "a">>) = Bool(FALSE)
                     THEN {<<"t", "y", "p", "e">>, <<"c", "o", "n", "t", "e", "n", "t">>}
                     ELSE {<<"t", "y", "p", "e">>, <<"c", "o", "n", "t", "e", "n", "t">>, <<"m", "e", "t", "a", "d", "a", "t", "a">>}

(* the text the raw value is turned into before formatting *)
RawText == IF RawValue.k = "str" THEN RawValue.s ELSE PyStr(RawValue, heap)

(* the casing that wins: the last enabled one in the order capitalize, *)
(* uppercase, lowercase                                                *)
WinningCase(s) ==
    IF Enabled(<<"l", "o", "w", "e", "r", "c", "a", "s", "e">>) THEN StrLower(s)
    ELSE IF Enabled(<<"u", "p", "p", "e", "r", "c", "a", "s", "e">>) THEN StrUpper(s)
    ELSE IF Enabled(<<"c", "a", "p", "i", "t", "a", "l", "i", "z", "e">>) THEN StrCapitalize(s)
    ELSE s

(* C24: text coercion returns a text: the raw value as text, in the casing  *)
(* of the last enabled option in the order capitalize, uppercase, lowercase *)
(* whatever order the options were given in (uppercase and lowercase both   *)
(* set gives lowercase text), cut to its first max_length characters when   *)
(* max_length is set, so never longer than max_length.                      *)
C24_TextCoercion ==
    Coerces("text") =>
        /\ ~call.out.raised
        /\ call.out.value.k = "str"
        /\ call.out.value.s
           = IF Enabled(<<"m", "a", "x", "_", "l", "e", "n", "g", "t", "h">>)
             THEN SubSeq(WinningCase(RawText), 1,
                         Min(Len(WinningCase(RawText)), OptionOf(<<"m", "a", "x", "_", "l", "e", "n", "g", "t", "h">>).n))
             ELSE WinningCase(RawText)
        /\ Enabled(<<"m", "a", "x", "_", "l", "e", "n", "g", "t", "h">>) => Len(call.out.value.s) <= OptionOf(<<"m", "a", "x", "_", "l", "e", "n", "g", "t", "h">>).n
        /\ Enabled(<<"l", "o", "w", "e", "r", "c", "a", "s", "e">>) =>
              \A i \in 1..Len(call.out.value.s) : call.out.value.s[i] \notin {"A", "B", "C"}

C24_Witness ==
    /\ Coerces("text")
    /\ RawValue = Str(<<"A", ",", " ", "B", ",", " ", "B", ",", " ", "C">>)
    /\ call.field.formatting # NoFormat
    /\ DictKeys(call.field.formatting.d) = <<<<"m", "a", "x", "_", "l", "e", "n", "g", "t", "h">>, <<"l", "o", "w", "e", "r", "c", "a", "s", "e">>, <<"u", "p", "p", "e", "r", "c", "a", "s", "e">>, <<"c", "a", "p", "i", "t", "a", "l", "i", "z", "e">>>>
    /\ call.out.value = Str(<<"a", ",">>)

(* the items of the raw value of a list field, and the first N of them *)
RawItems ==
    IF RawValue.k = "str" THEN TrimmedItems(RawValue.s)
    ELSE IF RawValue.k = "list" THEN RawValue.items
    ELSE <<RawValue>>
FirstItems == SubSeq(RawItems, 1, Min(Len(RawItems), OptionOf(<<"m", "a", "x", "_", "i", "t", "e", "m", "s">>).n))
Distinct(seq) == \A i, j \in 1..Len(seq) : seq[i] = seq[j] => i = j

(* C25: in list coercion max_items is applied before the deduplication:   *)
(* with max_items=N and unique the result is the first-seen-order          *)
(* deduplication of the first N items, so it has at most N items and no   *)
(* duplicates (and may have fewer than N although the input has N or more *)
(* distinct items); with max_items alone it is exactly the first N items. *)
C25_TruncateThenDeduplicate ==
    (Coerces("list") /\ Enabled(<<"m", "a", "x", "_", "i", "t", "e", "m", "s">>) /\ ~call.out.raised) =>
        IF Enabled(<<"u", "n", "i", "q", "u", "e">>)
        THEN /\ call.out.value = List(FirstOccurrences(FirstItems))
             /\ Len(call.out.value.items) <= OptionOf(<<"m", "a", "x", "_", "i", "t", "e", "m", "s">>).n
             /\ Distinct(call.out.value.items)
        ELSE call.out.value = List(FirstItems)

C25_Witness ==
    /\ Coerces("list")
    /\ RawValue = Str(<<"A", ",", " ", "B", ",", " ", "B", ",", " ", "C">>)
    /\ call.field.formatting = Format(<<Pair(<<"m", "a", "x", "_", "i", "t", "e", "m", "s">>, Num(3)), Pair(<<"u", "n", "i", "q", "u", "e">>, Bool(TRUE))>>)
    /\ call.out.value = List(<<Str(<<"A">>), Str(<<"B">>)>>)
    /\ Cardinality({RawItems[i] : i \in 1..Len(RawItems)}) = 3

(* a direct call of _process_field that is done, on a field with a default *)
CoercesDefaulted ==
    call.fn = "_process_field" /\ call.done /\ call.field.default_value # None

(* the field without its default, and a context that supplies the default *)
Undefaulted(field) == [field EXCEPT !.default_value = None]
Supplying(field) == <<Pair(field.name, field.default_value)>>

(* the content a field of the rendered template is given for the raw text s *)
CoercedText(field, s) ==
    IF field.field_type = "text" THEN Str(s)
    ELSE Dict(<<Pair(<<"c", "o", "n", "t", "e", "n", "t">>, Str(s)), Pair(<<"t", "y", "p", "e">>, Str(<<"t", "e", "x", "t">>))>>)

(* C26: a field's default is used exactly when the field name is absent    *)
(* from the context: then the outcome is that of coercing the default, by  *)
(* the field's type and formatting, as a supplied value, and the content   *)
(* holds the field with it; when the context supplies a value, null        *)
(* included, the outcome is what it is for the field without the default.  *)
C26_DefaultWhenAbsent ==
    /\ CoercesDefaulted =>
          call.out = OutOf(IF DictHas(call.data, call.field.name)
                           THEN _process_field(Undefaulted(call.field), call.data, heap)
                           ELSE _process_field(Undefaulted(call.field),
                                               Supplying(call.field), heap))
    /\ RenderDone =>
          \A i \in 1..Len(call.template.fields) :
              LET field == call.template.fields[i]
              IN IF DictHas(call.data, field.name)
                 THEN DictGet(call.data, field.name, None) # None =>
                         DictGet(call.out.value.content, field.name, Absent)
                         = CoercedText(field, DictGet(call.data, field.name, None).s)
                 ELSE field.default_value # None =>
                         DictGet(call.out.value.content, field.name, Absent)
                         = CoercedText(field, field.default_value.s)

C26_Witness ==
    /\ CoercesDefaulted
    /\ call.data = <<>>
    /\ call.field.field_type = "text"
    /\ call.field.default_value = Str(<<"A", ",", " ", "B", ",", " ", "B", ",", " ", "C">>)
    /\ call.field.formatting # NoFormat
    /\ DictKeys(call.field.formatting.d) = <<<<"l", "o", "w", "e", "r", "c", "a", "s", "e">>, <<"u", "p", "p", "e", "r", "c", "a", "s", "e">>>>
    /\ call.out.value = Str(<<"a", ",", " ", "b", ",", " ", "b", ",", " ", "c">>)

----------------------------------------------------------------------------
(* The question-answering generator *)

(* a generate_answer call that returned a Block, and the Block's text *)
Answered == call.fn = "generate_answer" /\ call.done /\ ~call.out.raised
AnswerText == call.out.value.content.s

(* the rules in their priority order, each with its keywords *)
AnswerRules ==
    <<[rule |-> "price", keywords |-> {<<"p", "r", "i", "c", "e">>}],
      [rule |-> "informational", keywords |-> {<<"w", "h", "a", "t", " ", "i", "s">>, <<"w", "h", "a", "t", " ", "a", "r", "e">>}],
      [rule |-> "usage", keywords |-> {<<"h", "o", "w", " ", "t", "o", " ", "u", "s", "e">>, <<"a", "p", "p", "l", "y">>}],
      [rule |-> "safety", keywords |-> {<<"s", "i", "d", "e", " ", "e", "f", "f", "e", "c", "t">>, <<"s", "a", "f", "e">>}],
      [rule |-> "skin_type", keywords |-> {<<"s", "k", "i", "n", " ", "t", "y", "p", "e">>, <<"s", "u", "i", "t", "a", "b", "l", "e">>}]>>

(* the rules whose keywords the question contains, by position *)
Matching(question) ==
    { i \in 1..Len(AnswerRules) :
        \E kw \in AnswerRules[i].keywords : Contains(StrLower(question), kw) }
FirstMatching(question) ==
    IF Matching(question) = {} THEN "fallback"
    ELSE AnswerRules[CHOOSE i \in Matching(question) : \A j \in Matching(question) : i <= j].rule

(* whether text is an answer of the rule, for the subject record pd *)
IsAnswerOf(rule, text, pd) ==
    CASE rule = "price" -> Contains(text, <<" ", "c", "o", "s", "t", "s", " ">>) \/ StartsWith(text, <<"P", "r", "i", "c", "e", " ", "f", "o", "r", " ">>)
      [] rule = "informational" ->
             \/ Contains(text, <<" ", "c", "o", "n", "t", "a", "i", "n", "s", " ">>) \/ StartsWith(text, <<"K", "e", "y", " ", "i", "n", "g", "r", "e", "d", "i", "e", "n", "t", "s", " ", "f", "o", "r", " ">>)
             \/ Contains(text, <<" ", "p", "r", "o", "v", "i", "d", "e", "s", " ">>) \/ StartsWith(text, <<"B", "e", "n", "e", "f", "i", "t", "s", " ", "f", "o", "r", " ">>)
             \/ Contains(text, <<" ", "i", "s", " ", "a", " ">>)
      [] rule = "usage" ->
             \/ StartsWith(text, <<"U", "s", "a", "g", "e", " ", "i", "n", "s", "t", "r", "u", "c", "t", "i", "o", "n", "s", " ", "f", "o", "r", " ">>)
             \/ Str(text) = DictGet(pd, <<"u", "s", "a", "g", "e", "_", "i", "n", "s", "t", "r", "u", "c", "t", "i", "o", "n", "s">>, None)
      [] rule = "safety" ->
             \/ StartsWith(text, <<"S", "i", "d", "e", " ", "e", "f", "f", "e", "c", "t", "s", " ", "i", "n", "f", "o", "r", "m", "a", "t", "i", "o", "n", " ", "f", "o", "r", " ">>)
             \/ Str(text) = DictGet(pd, <<"s", "i", "d", "e", "_", "e", "f", "f", "e", "c", "t", "s">>, None)
      [] rule = "skin_type" ->
             EndsWith(text, <<" ", "s", "k", "i", "n", " ", "t", "y", "p", "e", "s", ".">>) \/ StartsWith(text, <<"S", "u", "i", "t", "a", "b", "l", "e", " ", "s", "k", "i", "n", " ", "t", "y", "p", "e", "s", " ", "f", "o", "r", " ">>)
      [] OTHER -> Contains(text, <<" ", "d", "o", "e", "s", " ", "n", "o", "t", " ", "s", "p", "e", "c", "i", "f", "y", " ">>)
RulesAnswering(text, pd) ==
    { rule \in {"price", "informational", "usage", "safety", "skin_type", "fallback"} :
        IsAnswerOf(rule, text, pd) }

(* C27: the answer is that of the first matching rule in the order price,  *)
(* informational, usage, safety, skin-type, and of the fallback when no    *)
(* rule matches: exactly one rule produces the answer text.                *)
C27_FirstMatchingRuleAnswers ==
    Answered => RulesAnswering(AnswerText, call.pd) = {FirstMatching(call.question.s)}

C27_Witness ==
    /\ Answered
    /\ call.question = Str(<<"W", "h", "a", "t", " ", "i", "s", " ", "t", "h", "e", " ", "p", "r", "i", "c", "e", "?">>)
    /\ Cardinality(Matching(call.question.s)) = 2
    /\ AnswerText = <<"X", "a", " ", "c", "o", "s", "t", "s", " ", "9", ".">>

(* the question_type that names each rule *)
TypeOfRule(rule) ==
    CASE rule = "price" -> <<"p", "u", "r", "c", "h", "a", "s", "e">>
      [] rule = "fallback" -> <<"g", "e", "n", "e", "r", "a", "l">>
      [] rule = "informational" -> <<"i", "n", "f", "o", "r", "m", "a", "t", "i", "o", "n", "a", "l">>
      [] rule = "usage" -> <<"u", "s", "a", "g", "e">>
      [] rule = "safety" -> <<"s", "a", "f", "e", "t", "y">>
      [] OTHER -> <<"s", "k", "i", "n", "_", "t", "y", "p", "e">>

(* C29: the question_type in the facts of the returned Block names the rule *)
(* that produced the Block's answer text.                                   *)
C29_QuestionTypeNamesRule ==
    Answered =>
        \A rule \in RulesAnswering(AnswerText, call.pd) :
            DictGet(call.out.value.metadata.d, <<"q", "u", "e", "s", "t", "i", "o", "n", "_", "t", "y", "p", "e">>, None) = Str(TypeOfRule(rule))

----------------------------------------------------------------------------
(* The comparison blocks *)

(* a comparison call that is done, on two records that have a name *)
Compared ==
    /\ call.fn \in {"compare_ingredients", "compare_benefits", "compare_prices"}
    /\ call.done
    /\ DictHas(call.pa, <<"n", "a", "m", "e">>) /\ DictHas(call.pb, <<"n", "a", "m", "e">>)

(* the two sets a comparison call compares are both empty, or are equal *)
ComparedKey == IF call.fn = "compare_benefits" THEN <<"b", "e", "n", "e", "f", "i", "t", "s">> ELSE <<"k", "e", "y", "_", "i", "n", "g", "r", "e", "d", "i", "e", "n", "t", "s">>
ComparedSet(pd) ==
    {DictGet(pd, ComparedKey, List(<<>>)).items[i]
        : i \in 1..Len(DictGet(pd, ComparedKey, List(<<>>)).items)}

(* a text that reads as complete sentences: it starts with a capital, ends *)
(* with one period, and has no empty sentence or empty list item in it     *)
CompleteSentence(text) ==
    /\ Len(text) > 1
    /\ \E i \in 1..Len(UpperLetters) : text[1] = UpperLetters[i]
    /\ text[Len(text)] = "."
    /\ text[Len(text) - 1] \notin {".", " ", ","}
    /\ ~Contains(text, <<".", ".">>) /\ ~Contains(text, <<".", " ", ".">>)
    /\ ~Contains(text, <<",", " ", ",">>) /\ ~Contains(text, <<" ", " ">>)

(* C28: for every pair of subject records the comparison of ingredients, of *)
(* benefits and of prices returns a Block whose text is a non-empty,        *)
(* complete sentence ending with a period, also when both sets are empty    *)
(* and when the two sets are the same.                                      *)
C28_ComparisonTextComplete ==
    Compared =>
        /\ ~call.out.raised
        /\ call.out.value.k = "block"
        /\ CompleteSentence(call.out.value.content.s)

C28_Witness ==
    /\ Compared
    /\ call.fn = "compare_benefits"
    /\ ComparedSet(call.pa) = {} /\ ComparedSet(call.pb) = {}
    /\ call.out.value.content = Str(<<"E", "a", "c", "h", " ", "p", "r", "o", "d", "u", "c", "t", " ", "o", "f", "f", "e", "r", "s", " ", "u", "n", "i", "q", "u", "e", " ", "b", "e", "n", "e", "f", "i", "t", "s", ".">>)

----------------------------------------------------------------------------
(* The agents' status *)

(* C30: when process has returned, the agent's own status equals the status *)
(* of the result it returned, COMPLETED or FAILED, and is never RUNNING.    *)
C30_StatusMatchesResult ==
    \A i \in 1..Len(results) :
        /\ agent_status[results[i].agent_name] = results[i].status
        /\ agent_status[results[i].agent_name] \in {COMPLETED, FAILED}
====
